---------------------------- MODULE Spec2Model ----------------------------
(***************************************************************************)
(* A model of the matter-rs device core: the session manager and the       *)
(* per-session message counter (transport/session.rs), the TLV list reader *)
(* and the container reader (tlv.rs), the transport loop                   *)
(* (transport/mgr.rs), the Interaction Model dispatcher with the data      *)
(* model behind it (interaction_model, data_model), the write buffer       *)
(* (utils/writebuf.rs), the responder of the CASE handshake                *)
(* (secure_channel/case.rs), the node and its endpoints                    *)
(* (data_model/objects.rs) and the attribute read (data_model/core.rs).    *)
(*                                                                         *)
(* Each subsystem has its own specification (SpecSess, SpecTlv, SpecMgr,   *)
(* SpecCnt, SpecIm, SpecObj, SpecWb, SpecCase, SpecNode, SpecRead); the    *)
(* variables of the other subsystems stay at their initial value.          *)
(***************************************************************************)
EXTENDS Integers, Sequences, FiniteSets, TLC

VARIABLES
    \* ---- transport/session.rs : SessionMgr and Session
    sessions,          \* SessionMgr.sessions : slot -> Option<Session>
    next_sess_id,      \* SessionMgr.next_sess_id : u16
    overflow_checks,   \* the build: TRUE = debug (overflow panics), FALSE = release (wraps)
    panicked,          \* the thread has panicked
    allocs,            \* ids returned by reserve_new_sess_id, in call order
    pending,           \* reserved ids held by handshakes that have not installed a session
    sent,              \* slot -> counters placed on outgoing plain headers, in order
    last_op,           \* the last session-manager operation and its result
    \* ---- tlv.rs : TLVList and TLVListIterator
    tlv_buf,           \* TLVList.buf : the bytes
    tlv_len,           \* TLVList.len : the declared length
    tlv_it,            \* TLVListIterator : [current, left]
    tlv_prev,          \* the iterator as it was when next() was last called
    tlv_ret,           \* what the last call of next() returned
    tlv_reads,         \* the buffer indices the last call of next() accessed
    tlv_panic,         \* a call of next() panicked
    tlv_calls,         \* calls of next() made on the iterator
    \* ---- transport/mgr.rs : Mgr and its loop (Mgr::start)
    pc,                \* the step of the loop body that runs next
    exch,              \* ExchangeMgr : (session id, exchange id) -> none | open | closed
    rel,               \* ReliableMessage : [acks, retrans], each keyed like exch
    rx,                \* ProtoRx of the datagram being handled
    tx,                \* ProtoTx : [reliable, new_session]
    wire,              \* the messages transmitted in this iteration, in order
    trace,             \* the steps of this iteration run so far
    last_trace,        \* the steps of the previous iteration
    purged,            \* the exchanges the last purge removed
    accepted,          \* per session slot: the highest message counter Mgr::recv let through, or None
    \* ---- tlv.rs : TLVElement, TLVContainerIterator and find_tag
    cnt_tree,          \* the value the buffer is the encoding of
    cnt_buf,           \* the buffer
    cnt_stage,         \* "new", "elem" (an element is held), "iter" (it is being iterated)
    cnt_elem,          \* the element held: read from the buffer, or picked from cnt_out
    cnt_node,          \* where the held element is in cnt_tree: a path of child indices
    cnt_it,            \* TLVContainerIterator, None before into_iter
    cnt_out,           \* the elements the container iterator has yielded, in order
    cnt_ret,           \* what the last call of the container iterator returned
    cnt_calls,         \* calls made on the container iterator
    cnt_find,          \* the last call of find_tag: [tag, on, res]
    \* ---- interaction_model, data_model : one message, one conversion, one command
    im_node,           \* DataModel.node : endpoint index -> Option<set of cluster ids>
    im_rx,             \* the last message handled: [opcode, req, buf], or None
    im_res,            \* what handle_proto_id made of it: result, writer, consumer calls
    im_sent,           \* handle_rxtx sent the response of the last message
    im_closed,         \* the exchange of the last message was closed
    im_status,         \* the last Error converted to an IMStatusCode: [err, code]
    im_cmd,            \* the last direct call of handle_command: [req, out]
    im_panic,          \* the thread has panicked
    \* ---- data_model/objects.rs : one cluster and its commands
    obj_cluster,       \* Cluster.commands : [Option<Box<Command>>; CMDS_PER_CLUSTER]
    obj_ret,           \* the last call on the cluster and what it returned, or None
    \* ---- transport/session.rs : Session::clone
    cloned,            \* the last call of Session::clone: source, CloneData, result; or None
    \* ---- utils/writebuf.rs : one WriteBuf
    wb,                \* the WriteBuf: [buf, start, end], buf being &mut buf[..len]
    wb_ret,            \* the last call: [op, kind, res, size, src, before], or None
    wb_hist,           \* since the last reserve that returned Ok, while only appends and
                       \* prepends that returned Ok followed it: [h, pre, app], the
                       \* blocks in call order; otherwise None
    wb_panic,          \* the thread has panicked
    wb_ops,            \* the number of calls made on the WriteBuf
    \* ---- secure_channel/case.rs : the CASE handshake on one exchange
    case_exch,         \* the exchange: [closed, data], data the parked CaseSession or None
    case_tx,           \* what the handler wrote into proto_tx: [kind, code, fields], or None
    case_new,          \* proto_tx.new_session after the handler, or None
    case_ret,          \* the last message handled and what the handler returned, or None
    \* ---- data_model/objects.rs : Node, Endpoint
    nd_node,           \* Node.endpoints : index -> Option<Endpoint>, an Endpoint being
                       \* its array of clusters: index -> Option<cluster id>
    nd_ret,            \* the last call on the node and what it returned, or None
    nd_panic,          \* the thread has panicked
    nd_ops,            \* the number of calls made on the node
    \* ---- data_model/core.rs : consume_read_attr
    rd_node,           \* the node attributes are read from
    rd_ret             \* the last read: [paths, fab_scoped, res, out], or None

sessVars == <<sessions, next_sess_id, overflow_checks, panicked, allocs,
              pending, sent, last_op>>

tlvVars == <<tlv_buf, tlv_len, tlv_it, tlv_prev, tlv_ret, tlv_reads, tlv_panic,
             tlv_calls>>

mgrVars == <<pc, exch, rel, rx, tx, wire, trace, last_trace, purged, accepted>>

cntVars == <<cnt_tree, cnt_buf, cnt_stage, cnt_elem, cnt_node, cnt_it, cnt_out, cnt_ret,
             cnt_calls, cnt_find>>

imVars == <<im_node, im_rx, im_res, im_sent, im_closed, im_status, im_cmd, im_panic>>

objVars == <<obj_cluster, obj_ret>>
cloneVars == <<cloned>>
wbVars == <<wb, wb_ret, wb_hist, wb_panic, wb_ops>>
caseVars == <<case_exch, case_tx, case_new, case_ret>>
ndVars == <<nd_node, nd_ret, nd_panic, nd_ops>>
rdVars == <<rd_node, rd_ret>>
\* the subsystems added last, which every other subsystem leaves alone
moreVars == <<caseVars, ndVars, rdVars>>

vars == <<sessVars, tlvVars, mgrVars, cntVars, imVars, objVars, cloneVars, wbVars,
          moreVars>>

\* what a step of one subsystem leaves alone
SessFrame == UNCHANGED <<tlvVars, mgrVars, cntVars, imVars, objVars, cloneVars, wbVars, moreVars>>
TblFrame == UNCHANGED <<tlvVars, mgrVars, cntVars, imVars, objVars, wbVars, moreVars>>
TlvFrame == UNCHANGED <<sessVars, mgrVars, cntVars, imVars, objVars, cloneVars, wbVars, moreVars>>
MgrFrame ==
    UNCHANGED <<tlvVars, cntVars, imVars, objVars, cloneVars, wbVars, moreVars, allocs, pending, sent,
                last_op>>
CntFrame == UNCHANGED <<sessVars, tlvVars, mgrVars, imVars, objVars, cloneVars, wbVars, moreVars>>
ImFrame == UNCHANGED <<sessVars, tlvVars, mgrVars, cntVars, objVars, cloneVars, wbVars, moreVars>>
ObjFrame == UNCHANGED <<sessVars, tlvVars, mgrVars, cntVars, imVars, cloneVars, wbVars, moreVars>>
WbFrame ==
    UNCHANGED <<sessVars, tlvVars, mgrVars, cntVars, imVars, objVars, cloneVars, moreVars>>
\* the variables of the older subsystems
coreVars == <<sessVars, tlvVars, mgrVars, cntVars, imVars, objVars, cloneVars, wbVars>>
CaseFrame == UNCHANGED <<coreVars, ndVars, rdVars>>
NdFrame == UNCHANGED <<coreVars, caseVars, rdVars>>
RdFrame == UNCHANGED <<coreVars, caseVars, ndVars>>

----------------------------------------------------------------------------
(* Program constants *)

\* [Option<Session>; 16]
MaxSessions == 16
\* u16::MAX, the largest session id
U16Max == 65535
\* the width of one half of a u32: TLC's integers are 32-bit signed, so a u32
\* is kept as the pair <<high 16 bits, low 16 bits>>
HalfMod == 65536

(* Bounds of the model *)

\* sessions the environment lets the table grow to before it stops adding
MaxLive == 2
\* calls of reserve_new_sess_id in one behaviour
MaxAllocs == 3
\* sends (calls of pre_send) in one behaviour
MaxSends == 3

Slots == 1..MaxSessions
\* peer socket addresses; "test" is 127.0.0.1:5541 of Mgr::new
Peers == {"test", "p1", "p2"}
\* session ids carried by incoming plain headers
RxSessIds == {0, 1}

----------------------------------------------------------------------------
(* Option<T> : None is the empty sequence, Some(x) the one-element one *)

None == <<>>
Some(x) == <<x>>
IsSome(o) == o # None
Unwrap(o) == o[1]

SetMin(S) == CHOOSE x \in S : \A y \in S : x <= y

----------------------------------------------------------------------------
(* u32 arithmetic on <<high, low>> pairs of 16-bit halves *)

U32(hi, lo) == <<hi, lo>>
U32One == U32(0, 1)
U32Zero == U32(0, 0)
\* u32::MAX
U32Max == U32(HalfMod - 1, HalfMod - 1)
\* a < b
U32Less(a, b) == a[1] < b[1] \/ (a[1] = b[1] /\ a[2] < b[2])
\* a + 1 modulo 2^32 (wrapping_add)
U32WrappingInc(a) ==
    IF a[2] + 1 < HalfMod THEN U32(a[1], a[2] + 1)
    ELSE U32((a[1] + 1) % HalfMod, 0)
\* a - 1, for a > 0
U32Dec(a) == IF a[2] > 0 THEN U32(a[1], a[2] - 1) ELSE U32(a[1] - 1, HalfMod - 1)

----------------------------------------------------------------------------
(* Session *)

\* A key or an attestation challenge is an array of MATTER_AES128_KEY_SIZE
\* bytes. The model names the arrays it uses; ZeroKey is [0; 16].
ZeroKey == "zero"

\* Session::new
SessionNew(peer_addr) ==
    [peer_addr |-> peer_addr, dec_key |-> ZeroKey, enc_key |-> ZeroKey,
     att_challenge |-> ZeroKey, local_sess_id |-> 0, peer_sess_id |-> 0,
     msg_ctr |-> U32One, mode |-> "PlainText", data |-> None]

\* CloneData::new
CloneDataNew(peer_sess_id, local_sess_id, mode) ==
    [dec_key |-> ZeroKey, enc_key |-> ZeroKey, att_challenge |-> ZeroKey,
     peer_sess_id |-> peer_sess_id, local_sess_id |-> local_sess_id, mode |-> mode]

\* A mutant of Session::clone: the new session keeps the keys of its source
SessionClone_keeps_keys(self, clone_from) ==
    [peer_addr |-> self.peer_addr, dec_key |-> self.dec_key,
     enc_key |-> self.enc_key, att_challenge |-> self.att_challenge,
     local_sess_id |-> clone_from.local_sess_id,
     peer_sess_id |-> clone_from.peer_sess_id, msg_ctr |-> U32One,
     mode |-> clone_from.mode, data |-> None]

\* Session::clone
SessionClone(self, clone_from) ==
    [peer_addr |-> self.peer_addr, dec_key |-> clone_from.dec_key,
     enc_key |-> clone_from.enc_key, att_challenge |-> clone_from.att_challenge,
     local_sess_id |-> clone_from.local_sess_id,
     peer_sess_id |-> clone_from.peer_sess_id, msg_ctr |-> U32One,
     mode |-> clone_from.mode, data |-> None]

\* Session::is_encrypted
is_encrypted(s) == s.mode \in {"Case", "Pase"}

\* A mutant of get_msg_ctr: the counter is not advanced
get_msg_ctr_stuck(s, checks) ==
    [ctr |-> s.msg_ctr, panic |-> FALSE, session |-> s]

\* Session::get_msg_ctr : `self.msg_ctr += 1` on a u32 panics on overflow in a
\* build with overflow checks and wraps to 0 in one without.
get_msg_ctr(s, checks) ==
    IF s.msg_ctr = U32Max /\ checks
    THEN [ctr |-> s.msg_ctr, panic |-> TRUE, session |-> s]
    ELSE [ctr |-> s.msg_ctr, panic |-> FALSE,
          session |-> [s EXCEPT !.msg_ctr = U32WrappingInc(s.msg_ctr)]]

\* Session::pre_send : fills the plain header of an outgoing message
pre_send(s, checks) ==
    LET r == get_msg_ctr(s, checks)
    IN  [panic |-> r.panic, session |-> r.session,
         hdr |-> [sess_id |-> s.peer_sess_id, ctr |-> r.ctr,
                  sess_type |-> IF is_encrypted(s) THEN "Encrypted" ELSE "Unencrypted"]]

----------------------------------------------------------------------------
(* SessionMgr *)

Occupied(tbl) == {i \in Slots : IsSome(tbl[i])}
LiveIds(tbl) == {Unwrap(tbl[i]).local_sess_id : i \in Occupied(tbl)}

\* SessionMgr::get_empty_slot : position of the first None, 0 when there is none
get_empty_slot(tbl) ==
    IF \E i \in Slots : tbl[i] = None
    THEN SetMin({i \in Slots : tbl[i] = None})
    ELSE 0

\* A mutant of add_session: a full table gives up its last slot
add_session_evicting(tbl, session) ==
    LET index == get_empty_slot(tbl)
    IN  IF index = 0
        THEN [res |-> "Ok", idx |-> MaxSessions,
              sessions |-> [tbl EXCEPT ![MaxSessions] = Some(session)]]
        ELSE [res |-> "Ok", idx |-> index,
              sessions |-> [tbl EXCEPT ![index] = Some(session)]]

\* SessionMgr::add_session
add_session(tbl, session) ==
    LET index == get_empty_slot(tbl)
    IN  IF index = 0
        THEN [res |-> "NoSpace", idx |-> 0, sessions |-> tbl]
        ELSE [res |-> "Ok", idx |-> index,
              sessions |-> [tbl EXCEPT ![index] = Some(session)]]

\* SessionMgr::add
add(tbl, peer_addr) == add_session(tbl, SessionNew(peer_addr))

\* SessionMgr::_get : position of the first matching session, 0 when none
get(tbl, sess_id, peer_addr, enc) ==
    LET M == {i \in Occupied(tbl) :
                 /\ Unwrap(tbl[i]).local_sess_id = sess_id
                 /\ Unwrap(tbl[i]).peer_addr = peer_addr
                 /\ is_encrypted(Unwrap(tbl[i])) = enc}
    IN  IF M = {} THEN 0 ELSE SetMin(M)

\* SessionMgr::get_with_id : position of the first session with this id, 0 when none
get_with_id(tbl, sess_id) ==
    LET M == {i \in Occupied(tbl) : Unwrap(tbl[i]).local_sess_id = sess_id}
    IN  IF M = {} THEN 0 ELSE SetMin(M)

\* A mutant of get_or_add: a datagram without a matching session gets a new
\* session whatever its session id is
get_or_add_any_id(tbl, sess_id, peer_addr, enc) ==
    LET index == get(tbl, sess_id, peer_addr, enc)
    IN  IF index # 0
        THEN [res |-> "Ok", idx |-> index, sessions |-> tbl]
        ELSE IF ~enc
             THEN LET a == add(tbl, peer_addr)
                  IN  IF a.res = "Ok" THEN a
                      ELSE [res |-> "NoSession", idx |-> 0, sessions |-> tbl]
             ELSE [res |-> "NoSession", idx |-> 0, sessions |-> tbl]

\* SessionMgr::get_or_add
get_or_add(tbl, sess_id, peer_addr, enc) ==
    LET index == get(tbl, sess_id, peer_addr, enc)
    IN  IF index # 0
        THEN [res |-> "Ok", idx |-> index, sessions |-> tbl]
        ELSE IF sess_id = 0 /\ ~enc
             THEN LET a == add(tbl, peer_addr)
                  IN  IF a.res = "Ok" THEN a
                      ELSE [res |-> "NoSession", idx |-> 0, sessions |-> tbl]
             ELSE [res |-> "NoSession", idx |-> 0, sessions |-> tbl]

\* A mutant of sess_id_succ: the wrap to 0 is not replaced by 1
sess_id_succ_zero(id) == (id + 1) % (U16Max + 1)

\* the increment of next_sess_id: overflowing_add(1), then 0 is replaced by 1
sess_id_succ(id) ==
    LET n == (id + 1) % (U16Max + 1)
    IN  IF n = 0 THEN 1 ELSE n

\* A mutant of the collision check: every id is taken to be free
id_in_use_never(tbl, id) == FALSE

\* get_next_sess_id, the check `self.get_with_id(next_sess_id).is_none()`
id_in_use(tbl, id) == get_with_id(tbl, id) # 0

\* SessionMgr::get_next_sess_id : the loop, with the number of its iterations
RECURSIVE get_next_sess_id_loop(_, _, _)
get_next_sess_id_loop(tbl, next, iters) ==
    LET cand == next
        nxt  == sess_id_succ(next)
    IN  IF ~id_in_use(tbl, cand)
        THEN [id |-> cand, next |-> nxt, iters |-> iters + 1]
        ELSE get_next_sess_id_loop(tbl, nxt, iters + 1)

get_next_sess_id(tbl, next) == get_next_sess_id_loop(tbl, next, 0)

----------------------------------------------------------------------------
(* The session manager as a state machine (SpecSess) *)

NoHdr == [sess_id |-> 0, ctr |-> U32Zero, sess_type |-> "Unencrypted"]

\* the record of an operation: what was called, and what it returned
Op(op, res, idx, id, prev_next, iters, hdr) ==
    [op |-> op, res |-> res, idx |-> idx, id |-> id, prev_next |-> prev_next,
     iters |-> iters, hdr |-> hdr]

NoOp == Op("none", "Ok", 0, 0, 0, 0, NoHdr)

\* SessionMgr::new : no session, next_sess_id = 1
EmptyTable == [i \in Slots |-> None]

\* an established (CASE) session with the given ids, as add_session installs it
CaseSession(peer_addr, local_sess_id, peer_sess_id, msg_ctr) ==
    [peer_addr |-> peer_addr, dec_key |-> ZeroKey, enc_key |-> ZeroKey,
     att_challenge |-> ZeroKey, local_sess_id |-> local_sess_id,
     peer_sess_id |-> peer_sess_id, msg_ctr |-> msg_ctr, mode |-> "Case",
     data |-> None]

\* Mgr::new : the table with the pre-installed test session, which is
\* activated with keys (encrypted) and given local session id 0
MgrNewTable(msg_ctr) ==
    [EmptyTable EXCEPT ![1] = Some([peer_addr |-> "test", dec_key |-> "i2r_key",
                                    enc_key |-> "r2i_key", att_challenge |-> ZeroKey,
                                    data |-> None, local_sess_id |-> 0,
                                    peer_sess_id |-> 0, msg_ctr |-> msg_ctr,
                                    mode |-> "Case"])]

\* The table one session short of full: the plain-text session of the first
\* datagram of p2, and the sessions of 14 handshakes that completed on it,
\* with the local ids 1..14 the id generator gave them
NearlyFullTable ==
    [i \in Slots |->
        IF i = 1 THEN Some(SessionNew("p2"))
        ELSE IF i < MaxSessions THEN Some(CaseSession("p2", i - 1, 7, U32One))
        ELSE None]

\* message counters of a session at the start of a behaviour: a fresh session,
\* and one that has been sending for a long time
InitCtrs == {U32One, U32Dec(U32Max)}

\* States of the session manager a behaviour starts in. Each is a state the
\* program reaches: after SessionMgr::new, after Mgr::new, and after sessions
\* with ids {1,4} resp. {1} were installed and the id generator was advanced.
InitMgrStates ==
    {[sessions |-> EmptyTable, next |-> 1]}
    \cup {[sessions |-> MgrNewTable(c), next |-> 1] : c \in InitCtrs}
    \cup {[sessions |-> [EmptyTable EXCEPT ![1] = Some(CaseSession("p1", 1, 7, U32One)),
                                           ![2] = Some(CaseSession("p2", 4, 8, U32One))],
           next |-> 2]}
    \cup {[sessions |-> [EmptyTable EXCEPT ![1] = Some(CaseSession("p1", 1, 7, c))],
           next |-> U16Max - 1] : c \in InitCtrs}

SessInit ==
    /\ \E st \in InitMgrStates :
          /\ sessions = st.sessions
          /\ next_sess_id = st.next
    /\ overflow_checks \in BOOLEAN
    /\ panicked = FALSE
    /\ allocs = <<>>
    /\ pending = {}
    /\ sent = [i \in Slots |-> <<>>]
    /\ last_op = NoOp
    /\ cloned = None

RECURSIVE SumLen(_, _)
SumLen(f, S) ==
    IF S = {} THEN 0
    ELSE LET i == CHOOSE x \in S : TRUE IN Len(f[i]) + SumLen(f, S \ {i})

\* the number of headers sent in this behaviour
NumSent == SumLen(sent, Occupied(sessions))

\* the environment lets the table grow to MaxLive sessions, and lets a table
\* that is one session short of full fill up; a full table still receives calls
MayGrow ==
    \/ Cardinality(Occupied(sessions)) < MaxLive
    \/ Cardinality(Occupied(sessions)) >= MaxSessions - 1

\* SessionMgr::add(peer_addr)
Add(peer) ==
    /\ ~panicked
    /\ SessFrame
    /\ MayGrow
    /\ LET r == add(sessions, peer)
       IN  /\ sessions' = r.sessions
           /\ last_op' = Op("add", r.res, r.idx, 0, next_sess_id, 0, NoHdr)
    /\ UNCHANGED <<next_sess_id, overflow_checks, panicked, allocs, pending, sent>>

\* SessionMgr::recv : decode of the plain header, then get_or_add
Recv(sess_id, peer, enc, decode_ok) ==
    /\ ~panicked
    /\ SessFrame
    /\ MayGrow \/ get(sessions, sess_id, peer, enc) # 0 \/ sess_id # 0 \/ enc
    /\ LET r == IF decode_ok THEN get_or_add(sessions, sess_id, peer, enc)
                ELSE [res |-> "InvalidData", idx |-> 0, sessions |-> sessions]
       IN  /\ sessions' = r.sessions
           /\ last_op' = Op("recv", r.res, r.idx, sess_id, next_sess_id, 0, NoHdr)
    /\ UNCHANGED <<next_sess_id, overflow_checks, panicked, allocs, pending, sent>>

\* SessionHandle::reserve_new_sess_id, called by a handshake on the handle of
\* the session its message arrived on
ReserveNewSessId(slot) ==
    /\ ~panicked
    /\ SessFrame
    /\ slot \in Occupied(sessions)
    /\ Len(allocs) < MaxAllocs
    /\ LET r == get_next_sess_id(sessions, next_sess_id)
       IN  /\ next_sess_id' = r.next
           /\ allocs' = Append(allocs, r.id)
           /\ pending' = pending \cup {r.id}
           /\ last_op' = Op("reserve", "Ok", slot, r.id, next_sess_id, r.iters, NoHdr)
    /\ UNCHANGED <<sessions, overflow_checks, panicked, sent>>

\* The end of a handshake: Session::clone of the session the handshake ran on,
\* with the reserved local id, and SessionMgr::add_session of the clone
InstallCloned(slot, id, peer_sess_id) ==
    /\ ~panicked
    /\ SessFrame
    /\ slot \in Occupied(sessions)
    /\ id \in pending
    /\ MayGrow
    /\ LET c == SessionClone(Unwrap(sessions[slot]),
                             CloneDataNew(peer_sess_id, id, "Case"))
           r == add_session(sessions, c)
       IN  /\ sessions' = r.sessions
           /\ last_op' = Op("add_session", r.res, r.idx, id, next_sess_id, 0, NoHdr)
    /\ pending' = pending \ {id}
    /\ UNCHANGED <<next_sess_id, overflow_checks, panicked, allocs, sent>>

\* Session::pre_send on the session of a slot: the header of the next outgoing
\* message. What follows it (encode, encrypt, transmit) does not touch the
\* counter, whether it fails or not.
PreSend(slot) ==
    /\ ~panicked
    /\ SessFrame
    /\ slot \in Occupied(sessions)
    /\ NumSent < MaxSends
    /\ LET r == pre_send(Unwrap(sessions[slot]), overflow_checks)
       IN  IF r.panic
           THEN /\ panicked' = TRUE
                /\ last_op' = Op("pre_send", "panic", slot, 0, next_sess_id, 0, NoHdr)
                /\ UNCHANGED <<sessions, sent>>
           ELSE /\ sessions' = [sessions EXCEPT ![slot] = Some(r.session)]
                /\ sent' = [sent EXCEPT ![slot] = Append(@, r.hdr.ctr)]
                /\ last_op' = Op("pre_send", "Ok", slot, 0, next_sess_id, 0, r.hdr)
                /\ UNCHANGED panicked
    /\ UNCHANGED <<next_sess_id, overflow_checks, allocs, pending>>

SessNext ==
    \/ \E peer \in Peers : Add(peer)
    \/ \E sess_id \in RxSessIds, peer \in Peers, enc \in BOOLEAN, ok \in BOOLEAN :
          Recv(sess_id, peer, enc, ok)
    \/ \E slot \in Slots : ReserveNewSessId(slot)
    \/ \E slot \in Slots, id \in pending, psid \in {9} : InstallCloned(slot, id, psid)
    \/ \E slot \in Slots : PreSend(slot)

----------------------------------------------------------------------------
(* The session table under add and recv alone (SpecTbl), up to a full table *)

\* the tables of SessInit, and the table one session short of full
TblInit ==
    /\ \E st \in InitMgrStates \cup {[sessions |-> NearlyFullTable,
                                       next |-> MaxSessions - 1]} :
          /\ sessions = st.sessions
          /\ next_sess_id = st.next
    /\ overflow_checks = FALSE
    /\ panicked = FALSE
    /\ allocs = <<>>
    /\ pending = {}
    /\ sent = [i \in Slots |-> <<>>]
    /\ last_op = NoOp
    /\ cloned = None

\* the CloneData of a handshake: CloneData::new, then the keys and the
\* attestation challenge the handshake derived are written into its fields
CloneDataWith(peer_sess_id, local_sess_id, mode, dec_key, enc_key, att_challenge) ==
    [CloneDataNew(peer_sess_id, local_sess_id, mode) EXCEPT
        !.dec_key = dec_key, !.enc_key = enc_key, !.att_challenge = att_challenge]

\* the CloneData the calls of Session::clone are made with
CloneDatas ==
    {CloneDataWith(9, 2, mode, "dec_key", "enc_key", "att_challenge") :
        mode \in {"Case", "Pase", "PlainText"}}
    \cup {CloneDataNew(9, 3, "Case")}

\* Session::set_data on the session of a slot
SetData(slot) ==
    /\ ~panicked
    /\ SessFrame
    /\ slot \in Occupied(sessions)
    /\ sessions' = [sessions EXCEPT ![slot] = Some([Unwrap(@) EXCEPT !.data = Some("state")])]
    /\ last_op' = Op("set_data", "Ok", slot, 0, next_sess_id, 0, NoHdr)
    /\ UNCHANGED <<next_sess_id, overflow_checks, panicked, allocs, pending, sent>>

\* Session::clone on the session of a slot; the new session is returned to
\* the caller, the table is not touched
Clone(slot, clone_from) ==
    /\ ~panicked
    /\ TblFrame
    /\ slot \in Occupied(sessions)
    /\ cloned' = Some([self |-> Unwrap(sessions[slot]), clone_from |-> clone_from,
                       self_after |-> Unwrap(sessions[slot]),
                       session |-> SessionClone(Unwrap(sessions[slot]), clone_from)])
    /\ last_op' = Op("clone", "Ok", slot, clone_from.local_sess_id, next_sess_id, 0, NoHdr)
    /\ UNCHANGED <<sessions, next_sess_id, overflow_checks, panicked, allocs, pending, sent>>

TblNext ==
    \/ \E peer \in Peers : Add(peer)
    \/ \E sess_id \in RxSessIds, peer \in Peers, enc \in BOOLEAN, ok \in BOOLEAN :
          Recv(sess_id, peer, enc, ok)

\* the calls on the sessions of a table: set_data and clone (SpecClone)
CloneNext ==
    \/ \E slot \in 1..MaxLive : SetData(slot)
    \/ \E slot \in 1..MaxLive, clone_from \in CloneDatas : Clone(slot, clone_from)

----------------------------------------------------------------------------
(* Properties of the session manager *)

\* the slot holds a session with this local id, peer address and encryption
\* status
SlotMatches(tbl, i, sess_id, peer, enc) ==
    /\ tbl[i] # None
    /\ Unwrap(tbl[i]).local_sess_id = sess_id
    /\ Unwrap(tbl[i]).peer_addr = peer
    /\ (Unwrap(tbl[i]).mode # "PlainText") = enc

\* the tables differ in slot i only, which was free and now holds s
StoredAt(old, new, i, s) ==
    /\ i \in Slots
    /\ old[i] = None
    /\ new[i] = Some(s)
    /\ \A j \in Slots \ {i} : new[j] = old[j]

\* what the claim says of a call get_or_add(sess_id, peer, enc) that turned
\* the table `old` into `new` and returned `op`
GetOrAddAsClaimed(old, new, op, sess_id, peer, enc) ==
    LET hit == \E i \in Slots : SlotMatches(old, i, sess_id, peer, enc)
        room == \E i \in Slots : old[i] = None
    IN  /\ hit =>
              /\ op.res = "Ok"
              /\ SlotMatches(old, op.idx, sess_id, peer, enc)
              /\ new = old
        /\ (~hit /\ sess_id = 0 /\ ~enc /\ room) =>
              /\ op.res = "Ok"
              /\ StoredAt(old, new, op.idx, SessionNew(peer))
        /\ (~hit /\ ~(sess_id = 0 /\ ~enc /\ room)) =>
              /\ op.res = "NoSession"
              /\ new = old

\* C23: get_or_add returns the existing session exactly when an occupied slot
\* has the same local_sess_id, peer address and encryption status; when none
\* matches it makes a new plain-text session for the peer only if sess_id = 0
\* and the datagram is unencrypted; in every other case it returns no session
\* (NoSession from recv) and the table is unchanged.
C23_GetOrAdd ==
    [][\A sess_id \in RxSessIds, peer \in Peers, enc \in BOOLEAN :
          Recv(sess_id, peer, enc, TRUE) =>
              GetOrAddAsClaimed(sessions, sessions', last_op', sess_id, peer, enc)]_vars

\* C23 witness: a first unencrypted datagram (sess_id 0) has found the table
\* full and got no session; the last slot holds the plain-text session of p1
C23_Witness ==
    /\ last_op.op = "recv"
    /\ last_op.res = "NoSession"
    /\ last_op.id = 0
    /\ Occupied(sessions) = Slots
    /\ sessions[MaxSessions] = Some(SessionNew("p1"))

\* what the claim says of a call add(peer) that turned the table `old` into
\* `new` and returned `op`
AddAsClaimed(old, new, op, peer) ==
    IF Cardinality({i \in Slots : old[i] # None}) < 16
    THEN /\ op.res = "Ok"
         /\ StoredAt(old, new, op.idx, Unwrap(new[op.idx]))
         /\ Unwrap(new[op.idx]).peer_addr = peer
         /\ Unwrap(new[op.idx]).local_sess_id = 0
         /\ Unwrap(new[op.idx]).peer_sess_id = 0
         /\ Unwrap(new[op.idx]).msg_ctr = <<0, 1>>
         /\ Unwrap(new[op.idx]).mode = "PlainText"
         /\ ~is_encrypted(Unwrap(new[op.idx]))
    ELSE /\ op.res = "NoSpace"
         /\ new = old

\* C24: add(peer_addr) stores a new plain-text session (local and peer session
\* id 0, msg_ctr 1, not encrypted) in a free slot whenever fewer than 16 slots
\* are occupied and leaves the other slots unchanged; with all 16 slots
\* occupied it returns NoSpace and leaves the table unchanged; never more
\* than 16 slots are occupied.
C24_AddOrNoSpace ==
    /\ [][\A peer \in Peers :
             Add(peer) => AddAsClaimed(sessions, sessions', last_op', peer)]_vars
    /\ [](Cardinality({i \in DOMAIN sessions : sessions[i] # None}) <= 16)

\* C24 witness: add has found all 16 slots occupied and returned NoSpace
C24_Witness ==
    /\ last_op.op = "add"
    /\ last_op.res = "NoSpace"
    /\ Cardinality(Occupied(sessions)) = 16

\* every slot of the session table is occupied
TableFull == Occupied(sessions) = Slots

\* C25: a session does not keep its slot forever (it is evicted on close or
\* under capacity pressure), so a full table gets a free slot again and a
\* first unencrypted datagram of a new peer can obtain a session.
C25_FullTableRecovers == TableFull ~> ~TableFull

\* the last call of Session::clone
CloneCall == Unwrap(cloned)

\* what is claimed of the new session apart from its being encrypted
CloneAdopts(c) ==
    /\ c.session.msg_ctr = <<0, 1>>
    /\ c.session.peer_addr = c.self.peer_addr
    /\ c.session.dec_key = c.clone_from.dec_key
    /\ c.session.enc_key = c.clone_from.enc_key
    /\ c.session.att_challenge = c.clone_from.att_challenge
    /\ c.session.local_sess_id = c.clone_from.local_sess_id
    /\ c.session.peer_sess_id = c.clone_from.peer_sess_id
    /\ c.session.mode = c.clone_from.mode
    /\ c.session.data = None
    /\ c.self_after = c.self

StrictlyIncreasing(s) == \A i \in 1..(Len(s) - 1) : U32Less(s[i], s[i + 1])

\* C1: on every session the message counters placed on successive outgoing
\* plain headers are strictly increasing, so none repeats or decreases, also
\* not by wrapping around at 2^32.
C1_CountersStrictlyIncrease ==
    \A slot \in Slots : StrictlyIncreasing(sent[slot])

\* the d-th id after `from` in the cyclic order 1, 2, ..., 65535, 1, ...
CycAfter(from, d) == ((from - 1 + d) % U16Max) + 1

\* C2: every call of reserve_new_sess_id / get_next_sess_id terminates (its
\* loop runs at most once per slot of the table, plus once) and returns an id
\* that is not 0 and is not the local_sess_id of a session in the table; the
\* generator itself never stands at 0.
C2_AllocNonZeroAndFree ==
    /\ next_sess_id \in 1..U16Max
    /\ last_op.op = "reserve" =>
          /\ last_op.id \in 1..U16Max
          /\ last_op.id \notin LiveIds(sessions)
          /\ last_op.iters <= MaxSessions + 1

\* C2 witness: a call that wrapped past 65535, skipped the live id 1 and
\* returned 2 after two turns of its loop
C2_Witness ==
    /\ last_op.op = "reserve"
    /\ last_op.prev_next = 1
    /\ 1 \in LiveIds(sessions)
    /\ last_op.id = 2
    /\ last_op.iters = 2
    /\ Len(allocs) = 3 /\ allocs[2] = U16Max

\* the distance from `from` to the first id not in `live`, in the cyclic order
FirstFreeDist(from, live) ==
    SetMin({d \in 0..MaxSessions : CycAfter(from, d) \notin live})

\* three successive calls from `next` on a table that does not change
ThreeCalls(tbl, next) ==
    LET a == get_next_sess_id(tbl, next)
        b == get_next_sess_id(tbl, a.next)
        c == get_next_sess_id(tbl, b.next)
    IN  <<a.id, b.id, c.id>>

\* C3: a call returns the first id at or after next_sess_id, in the cyclic
\* order 1, 2, ..., 65535, 1, ..., that no live session uses, and leaves
\* next_sess_id at the successor of the returned id (the successor of 65535
\* is 1). With live ids {1,4} and next = 2 three calls give 2, 3, 5; with live
\* id {1} and next = 65534 they give 65534, 65535, 2.
C3_RotatingAllocation ==
    /\ last_op.op = "reserve" =>
          /\ last_op.id =
                CycAfter(last_op.prev_next,
                         FirstFreeDist(last_op.prev_next, LiveIds(sessions)))
          /\ next_sess_id = CycAfter(last_op.id, 1)
    /\ ThreeCalls([EmptyTable EXCEPT ![1] = Some(CaseSession("p1", 1, 7, U32One)),
                                     ![2] = Some(CaseSession("p2", 4, 8, U32One))], 2)
          = <<2, 3, 5>>
    /\ ThreeCalls([EmptyTable EXCEPT ![1] = Some(CaseSession("p1", 1, 7, U32One))],
                  U16Max - 1)
          = <<U16Max - 1, U16Max, 2>>

\* C3 witness: the three calls of the second example have been made
C3_Witness ==
    /\ LiveIds(sessions) = {1}
    /\ allocs = <<U16Max - 1, U16Max, 2>>
    /\ next_sess_id = 3

\* C4: no two occupied slots of the session table hold sessions with the same
\* local_sess_id.
C4_LocalSessIdUnique ==
    \A i, j \in Occupied(sessions) :
        i # j => Unwrap(sessions[i]).local_sess_id # Unwrap(sessions[j]).local_sess_id

----------------------------------------------------------------------------
(* tlv.rs : the TLV list reader *)

\* const MAX_VALUE_INDEX
MAX_VALUE_INDEX == 25
\* the number of tag forms (3 bits of the control octet)
MAX_TAG_INDEX == 8
\* the control octet is (tag_form << 5) | type
TAG_SHIFT == 32

\* TAG_SIZE_MAP, indexed by tag form: Anonymous, Context, CommonPrf16,
\* CommonPrf32, ImplPrf16, ImplPrf32, FullQual48, FullQual64
TAG_SIZE_MAP == <<0, 1, 2, 4, 2, 4, 6, 8>>

\* the bytes each entry of TAG_EXTRACTOR reads at buf[current..]
TAG_EXTRACTOR_WIDTH == <<0, 1, 2, 4, 2, 4, 6, 8>>

\* VALUE_SIZE_MAP, indexed by element type 0..24
VALUE_SIZE_MAP == <<1, 2, 4, 8, 1, 2, 4, 8, 0, 0, 4, 8, 1, 2, 4, 8,
                    1, 2, 4, 8, 0, 0, 0, 0, 0>>

\* element types by number
TY_FALSE == 8
TY_TRUE == 9
TY_UTF8L == 12
TY_STR8L == 16
TY_NULL == 20
TY_STRUCT == 21
TY_ARRAY == 22
TY_LIST == 23
TY_ENDCNT == 24

\* the fixed-width integer types, whose extractor reads VALUE_SIZE_MAP bytes
IntTypes == 0..7
\* the types whose extractor returns ElementType::Last: the float and the
\* 2/4/8-byte-length string types
LastTypes == {10, 11, 13, 14, 15, 17, 18, 19}
ContainerTypes == {TY_STRUCT, TY_ARRAY, TY_LIST}

\* buf[from .. from+n-1] by 0-based index, as a sequence
Bytes(buf, from, n) == [k \in 1..n |-> buf[from + k]]

\* A slice access buf[from..] or buf[from..to] followed by a read of n bytes
\* panics when it leaves the buffer (its real size, not the declared length)
OutOfBuf(buf, from, n) == from + n > Len(buf)

\* the result of a step of the reader: the iterator after it, what it
\* returns, the indices it accessed, and whether it panicked
Step(it, ret, reads, panic) == [it |-> it, ret |-> ret, reads |-> reads, panic |-> panic]

\* TLVListIterator::advance ; `self.left -= len` underflows when len > left
advance(it, len) == [current |-> it.current + len, left |-> it.left - len]

\* TLVListIterator::read_this_tag
read_this_tag(buf, it, tag_type) ==
    IF tag_type >= MAX_TAG_INDEX THEN Step(it, None, {}, FALSE)
    ELSE LET tag_size == TAG_SIZE_MAP[tag_type + 1]
             width == TAG_EXTRACTOR_WIDTH[tag_type + 1]
         IN  IF tag_size > it.left THEN Step(it, None, {}, FALSE)
             ELSE IF width > 0 /\ OutOfBuf(buf, it.current, width)
                  THEN Step(it, None, it.current..(it.current + width - 1), TRUE)
                  ELSE Step(advance(it, tag_size),
                            Some([form |-> tag_type, val |-> Bytes(buf, it.current, width)]),
                            it.current..(it.current + width - 1), FALSE)

\* An element, as VALUE_EXTRACTOR builds it: its type, the bytes of its value
\* (little-endian for an integer, the content for a string) and, for a
\* container, the Pointer [current, left]
Elem(ty, val, ptr) == [ty |-> ty, val |-> val, ptr |-> ptr]
NoPtr == [current |-> 0, left |-> 0]

\* A mutant of the string extractor: the length check is left out
str8_extract_unchecked(buf, it, ty) ==
    LET size == buf[it.current + 1]
    IN  IF OutOfBuf(buf, it.current + 1, size)
        THEN [extra |-> size, elem |-> None, panic |-> TRUE,
              reads |-> it.current..(it.current + size)]
        ELSE [extra |-> size, panic |-> FALSE,
              elem |-> Some(Elem(ty, Bytes(buf, it.current + 1, size), NoPtr)),
              reads |-> it.current..(it.current + size)]

\* VALUE_EXTRACTOR[12] and [16], Utf8l and Str8l: the current byte is the
\* length; `size + 1 > t.left` gives ElementType::Last
str8_extract(buf, it, ty) ==
    IF OutOfBuf(buf, it.current, 1)
    THEN [extra |-> 0, elem |-> None, panic |-> TRUE, reads |-> {it.current}]
    ELSE LET size == buf[it.current + 1]
         IN  IF size + 1 > it.left
             THEN [extra |-> size, elem |-> None, panic |-> FALSE, reads |-> {it.current}]
             ELSE IF OutOfBuf(buf, it.current + 1, size)
                  THEN [extra |-> size, elem |-> None, panic |-> TRUE,
                        reads |-> it.current..(it.current + size)]
                  ELSE [extra |-> size, panic |-> FALSE,
                        elem |-> Some(Elem(ty, Bytes(buf, it.current + 1, size), NoPtr)),
                        reads |-> it.current..(it.current + size)]

\* VALUE_EXTRACTOR[element_type] : (extra size, element), None for
\* ElementType::Last
value_extract(buf, it, ty) ==
    IF ty \in IntTypes
    THEN LET n == VALUE_SIZE_MAP[ty + 1]
         IN  IF OutOfBuf(buf, it.current, n)
             THEN [extra |-> 0, elem |-> None, panic |-> TRUE,
                   reads |-> it.current..(it.current + n - 1)]
             ELSE [extra |-> 0, panic |-> FALSE,
                   elem |-> Some(Elem(ty, Bytes(buf, it.current, n), NoPtr)),
                   reads |-> it.current..(it.current + n - 1)]
    ELSE IF ty \in {TY_UTF8L, TY_STR8L} THEN str8_extract(buf, it, ty)
    ELSE IF ty \in LastTypes
    THEN [extra |-> 0, elem |-> None, panic |-> FALSE, reads |-> {}]
    ELSE IF ty \in ContainerTypes
    THEN [extra |-> 0, panic |-> FALSE, reads |-> {},
          elem |-> Some(Elem(ty, <<>>, [current |-> it.current, left |-> it.left]))]
    ELSE [extra |-> 0, panic |-> FALSE, reads |-> {},
          elem |-> Some(Elem(ty, <<>>, NoPtr))]

\* A mutant of the size check of read_this_value: it is left out
value_too_long_never(size, left) == FALSE

\* read_this_value, the check `size > self.left`
value_too_long(size, left) == size > left

\* A mutant of the type check of read_this_value: off by one
type_unknown_off_by_one(element_type) == element_type > MAX_VALUE_INDEX

\* read_this_value, the check `element_type as usize >= MAX_VALUE_INDEX`
type_unknown(element_type) == element_type >= MAX_VALUE_INDEX

\* TLVListIterator::read_this_value
read_this_value(buf, it, element_type) ==
    IF type_unknown(element_type) THEN Step(it, None, {}, FALSE)
    ELSE IF element_type + 1 > Len(VALUE_SIZE_MAP) THEN Step(it, None, {}, TRUE)
    ELSE LET size == VALUE_SIZE_MAP[element_type + 1]
         IN  IF value_too_long(size, it.left) THEN Step(it, None, {}, FALSE)
             ELSE LET x == value_extract(buf, it, element_type)
                  IN  IF x.panic THEN Step(it, None, x.reads, TRUE)
                      ELSE IF x.elem = None THEN Step(it, None, x.reads, FALSE)
                      ELSE IF size + x.extra > it.left
                           THEN Step(it, None, x.reads, TRUE)
                           ELSE Step(advance(it, size + x.extra), x.elem, x.reads, FALSE)

\* TLVListIterator::next
next(buf, it) ==
    IF it.left < 1 THEN Step(it, None, {}, FALSE)
    ELSE IF OutOfBuf(buf, it.current, 1) THEN Step(it, None, {it.current}, TRUE)
    ELSE LET control == buf[it.current + 1]
             tag_type == control \div TAG_SHIFT
             element_type == control % TAG_SHIFT
             it1 == advance(it, 1)
             t == read_this_tag(buf, it1, tag_type)
         IN  IF t.ret = None THEN Step(t.it, None, {it.current} \cup t.reads, t.panic)
             ELSE LET v == read_this_value(buf, t.it, element_type)
                  IN  IF v.ret = None
                      THEN Step(v.it, None, {it.current} \cup t.reads \cup v.reads, v.panic)
                      ELSE Step(v.it,
                                Some([tag_type |-> Unwrap(t.ret),
                                      element_type |-> Unwrap(v.ret)]),
                                {it.current} \cup t.reads \cup v.reads, FALSE)

\* TLVList::into_iter
into_iter(len) == [current |-> 0, left |-> len]

----------------------------------------------------------------------------
(* tlv.rs : typed values, their encoding, and what the extractors make of *)
(* the bytes                                                               *)

\* the remaining element types by number
TY_F32 == 10
TY_F64 == 11

\* one byte is a digit in base ByteMod
ByteMod == 256

\* the string types by the width of their length prefix
StrTypes == 12..19
StrLenWidth(ty) == VALUE_SIZE_MAP[ty + 1]

\* A value of the typed universe: [ty, tag, v, kids]. `tag` is None
\* (anonymous) or Some(n), a context tag. `v` is an integer for the 1- and
\* 2-byte integer types, the 16-bit limbs (most significant first) of the
\* bit pattern for the 4- and 8-byte integer types and the floats, the
\* content bytes for a string; `kids` are the members of a container.
Node(ty, tag, v, kids) == [ty |-> ty, tag |-> tag, v |-> v, kids |-> kids]

\* little-endian bytes of a 16-bit limb
Le16(x) == <<x % ByteMod, x \div ByteMod>>

\* little-endian bytes of limbs given most significant first
RECURSIVE LeLimbs(_)
LeLimbs(limbs) ==
    IF limbs = <<>> THEN <<>>
    ELSE LeLimbs(Tail(limbs)) \o Le16(Head(limbs))

\* the n little-endian bytes of a length
RECURSIVE LeLen(_, _)
LeLen(len, n) == IF n = 0 THEN <<>> ELSE <<len % ByteMod>> \o LeLen(len \div ByteMod, n - 1)

\* the value bytes of a leaf in the TLV format: two's complement,
\* little-endian; a string is its length prefix and its content
EncodeValue(ty, v) ==
    IF ty \in {0, 4} THEN <<(v + ByteMod) % ByteMod>>
    ELSE IF ty \in {1, 5} THEN Le16((v + HalfMod) % HalfMod)
    ELSE IF ty \in {2, 3, 6, 7, TY_F32, TY_F64} THEN LeLimbs(v)
    ELSE IF ty \in StrTypes THEN LeLen(Len(v), StrLenWidth(ty)) \o v
    ELSE <<>>

\* control octet and tag bytes of an element
EncodeHead(ty, tag) ==
    IF tag = None THEN <<ty>> ELSE <<TAG_SHIFT + ty, Unwrap(tag)>>

\* the well-formed encoding of a value: a container is closed by an
\* end-of-container octet
RECURSIVE Encode(_)
RECURSIVE EncodeAll(_)
Encode(n) ==
    EncodeHead(n.ty, n.tag) \o
        (IF n.ty \in ContainerTypes
         THEN EncodeAll(n.kids) \o <<TY_ENDCNT>>
         ELSE EncodeValue(n.ty, n.v))
EncodeAll(ns) == IF ns = <<>> THEN <<>> ELSE Encode(Head(ns)) \o EncodeAll(Tail(ns))

\* the limbs (most significant first) of little-endian bytes
RECURSIVE LimbsOfLe(_)
LimbsOfLe(bytes) ==
    IF bytes = <<>> THEN <<>>
    ELSE LimbsOfLe(SubSeq(bytes, 3, Len(bytes))) \o <<bytes[1] + ByteMod * bytes[2]>>

\* The value an element carries, as VALUE_EXTRACTOR computes it from the
\* bytes: `as i8`, LittleEndian::read_i16/u16/i32/u32/i64/u64, the slice of
\* a string
ElemValue(e) ==
    IF e.ty = 0 THEN (IF e.val[1] >= 128 THEN e.val[1] - ByteMod ELSE e.val[1])
    ELSE IF e.ty = 4 THEN e.val[1]
    ELSE IF e.ty = 1
    THEN LET u == e.val[1] + ByteMod * e.val[2]
         IN  IF u >= 32768 THEN u - HalfMod ELSE u
    ELSE IF e.ty = 5 THEN e.val[1] + ByteMod * e.val[2]
    ELSE IF e.ty \in {2, 3, 6, 7} THEN LimbsOfLe(e.val)
    ELSE e.val

----------------------------------------------------------------------------
(* tlv.rs : TLVElement::into_iter, TLVContainerIterator, find_tag *)

\* is_container
is_container(e) == e.ty \in ContainerTypes

\* TLVElement::into_iter : None for an element that is no container
elem_into_iter(element) ==
    IF is_container(element.element_type)
    THEN Some([list_iter |-> element.element_type.ptr,
               prev_container |-> FALSE,
               iterator_consumed |-> FALSE])
    ELSE None

\* the result of a call on a container iterator
CStep(ci, ret, panic) == [ci |-> ci, ret |-> ret, panic |-> panic]

\* skip_to_end_of_container, the nesting level after an element that is no
\* end-of-container
nest_after(nest_level, e) == IF is_container(e) THEN nest_level + 1 ELSE nest_level

\* skip_to_end_of_container, after the end of the container that is skipped:
\* r2 is what next() returns for the element that follows it
skip_after_end(ci, r2) ==
    LET ci2 == [ci EXCEPT !.list_iter = r2.it]
    IN  IF r2.ret = None THEN CStep(ci2, None, r2.panic)
        ELSE IF Unwrap(r2.ret).element_type.ty = TY_ENDCNT
        THEN CStep([ci2 EXCEPT !.iterator_consumed = TRUE], None, FALSE)
        ELSE CStep(ci2, r2.ret, FALSE)

\* TLVContainerIterator::skip_to_end_of_container: skip_loop is the loop,
\* skip_step its body for the element r that next() returned
RECURSIVE skip_loop(_, _, _)
skip_step(buf, ci, nest_level, r) ==
    LET ci1 == [ci EXCEPT !.list_iter = r.it]
    IN  IF r.ret = None THEN CStep(ci1, None, r.panic)
        ELSE IF Unwrap(r.ret).element_type.ty = TY_ENDCNT
        THEN IF nest_level = 0
             THEN skip_after_end(ci, next(buf, r.it))
             ELSE skip_loop(buf, ci1, nest_level - 1)
        ELSE skip_loop(buf, ci1, nest_after(nest_level, Unwrap(r.ret).element_type))

skip_loop(buf, ci, nest_level) == skip_step(buf, ci, nest_level, next(buf, ci.list_iter))

skip_to_end_of_container(buf, ci) == skip_loop(buf, ci, 0)

\* TLVContainerIterator::next, the element read when the previous one was
\* no container: r is what next() returned
cnt_next_read(ci, r) == CStep([ci EXCEPT !.list_iter = r.it], r.ret, r.panic)

\* TLVContainerIterator::next, what is made of the element read
cnt_next_elem(x) ==
    IF x.ret = None THEN x
    ELSE IF Unwrap(x.ret).element_type.ty = TY_ENDCNT
    THEN CStep([x.ci EXCEPT !.iterator_consumed = TRUE], None, FALSE)
    ELSE CStep([x.ci EXCEPT
                   !.prev_container = is_container(Unwrap(x.ret).element_type)],
               x.ret, FALSE)

\* TLVContainerIterator::next
cnt_next(buf, ci) ==
    IF ci.iterator_consumed THEN CStep(ci, None, FALSE)
    ELSE cnt_next_elem(IF ci.prev_container
                       THEN skip_to_end_of_container(buf, ci)
                       ELSE cnt_next_read(ci, next(buf, ci.list_iter)))

\* TagType::Context(n)
ContextTag(n) == [form |-> 1, val |-> <<n>>]

\* find_tag, `TagType::Context(tag as u8)` for a tag: u32
match_tag(tag) == ContextTag(tag % ByteMod)

\* find_tag: find_loop is the loop over the iterator, find_match its body
\* for the result x of iter.next()
RECURSIVE find_loop(_, _, _)
find_match(buf, tag, x) ==
    IF x.panic THEN [res |-> "panic", elem |-> None]
    ELSE IF x.ret = None THEN [res |-> "NoTagFound", elem |-> None]
    ELSE IF match_tag(tag) = Unwrap(x.ret).tag_type
         THEN [res |-> "Ok", elem |-> x.ret]
         ELSE find_loop(buf, x.ci, tag)

find_loop(buf, ci, tag) == find_match(buf, tag, cnt_next(buf, ci))

\* TLVElement::find_tag
find_tag(buf, element, tag) ==
    LET iter == elem_into_iter(element)
    IN  IF iter = None THEN [res |-> "TLVTypeMismatch", elem |-> None]
        ELSE find_loop(buf, Unwrap(iter), tag)

----------------------------------------------------------------------------
(* The list reader as a state machine (SpecTlv) *)

\* longest buffer
MaxBuf == 4
\* calls of next() on one iterator
MaxCalls == 6
\* how far the declared length may stay below the buffer size
MaxSlack == 2

\* The bytes buffers are made of: 0x00 (S8, or a zero), 0x01 (S16, or a one),
\* 0x08 (False), 0x19 (type 25, unknown), 0x24 (context-tagged U8),
\* 0x30 (context-tagged Str8l), 0xE8 (FullQual64-tagged False)
ByteAlphabet == {0, 1, 8, 25, 36, 48, 232}

Buffers == UNION {[1..n -> ByteAlphabet] : n \in 0..MaxBuf}

\* TLVList::new(buf, len).into_iter(), for every buffer and declared length
TlvInit ==
    /\ tlv_buf \in Buffers
    /\ tlv_len \in {l \in 0..Len(tlv_buf) : l + MaxSlack >= Len(tlv_buf)}
    /\ tlv_it = into_iter(tlv_len)
    /\ tlv_prev = into_iter(tlv_len)
    /\ tlv_ret = None
    /\ tlv_reads = {}
    /\ tlv_panic = FALSE
    /\ tlv_calls = 0

\* one call of TLVListIterator::next
TlvNext ==
    /\ ~tlv_panic
    /\ TlvFrame
    /\ tlv_prev' = tlv_it
    /\ tlv_calls < MaxCalls
    /\ LET r == next(tlv_buf, tlv_it)
       IN  /\ tlv_it' = r.it
           /\ tlv_ret' = r.ret
           /\ tlv_reads' = r.reads
           /\ tlv_panic' = r.panic
    /\ tlv_calls' = tlv_calls + 1
    /\ UNCHANGED <<tlv_buf, tlv_len>>

----------------------------------------------------------------------------
(* The element and container readers as a state machine (SpecCnt) *)

\* members of the outermost container
MaxKids == 2
\* calls of next() on one container iterator
MaxCntCalls == 4

\* sequences over S of length at most n
SeqUpTo(S, n) == UNION {[1..k -> S] : k \in 0..n}

\* leaves used as members: a context-tagged U8, an anonymous False, a
\* context-tagged 1-byte string, an anonymous float
KidLeaves ==
    {Node(4, Some(1), 2, <<>>), Node(TY_FALSE, None, <<>>, <<>>),
     Node(TY_STR8L, Some(2), <<65>>, <<>>), Node(TY_F32, None, <<16256, 0>>, <<>>)}

\* containers of leaves, and containers of those
Inner1 ==
    {Node(TY_STRUCT, tag, <<>>, kids) :
        tag \in {None, Some(1)}, kids \in SeqUpTo(KidLeaves, 1)}
Inner2 ==
    {Node(TY_ARRAY, Some(2), <<>>, kids) : kids \in SeqUpTo(Inner1, 1)}

\* the containers handed to the reader
Containers ==
    {Node(ty, None, <<>>, kids) :
        ty \in ContainerTypes, kids \in SeqUpTo(KidLeaves \cup Inner1 \cup Inner2, MaxKids)}

\* the limbs, and the bytes, values are made of
SomeLimbs == {0, 1, 65535}
SomeBytes == {0, 65, 255}

\* values of every leaf type of the format
LeafValues ==
    {Node(ty, None, v, <<>>) : ty \in {0}, v \in {-128, -1, 0, 127}}
    \cup {Node(ty, None, v, <<>>) : ty \in {4}, v \in {0, 1, 255}}
    \cup {Node(ty, None, v, <<>>) : ty \in {1}, v \in {-32768, -1, 0, 258, 32767}}
    \cup {Node(ty, None, v, <<>>) : ty \in {5}, v \in {0, 258, 65535}}
    \cup {Node(ty, None, v, <<>>) : ty \in {2, 6, TY_F32}, v \in [1..2 -> SomeLimbs]}
    \cup {Node(ty, None, v, <<>>) : ty \in {3, 7, TY_F64}, v \in [1..4 -> {0, 65535}]}
    \cup {Node(ty, None, <<>>, <<>>) : ty \in {TY_FALSE, TY_TRUE, TY_NULL}}
    \cup {Node(ty, None, v, <<>>) : ty \in StrTypes, v \in SeqUpTo(SomeBytes, 2)}

CntValues == Containers \cup LeafValues

\* the member of a value at a path of child indices
RECURSIVE NodeAt(_, _)
NodeAt(n, path) == IF path = <<>> THEN n ELSE NodeAt(n.kids[Head(path)], Tail(path))

\* TLVList::new(buf, buf.len()) on the encoding of a value
CntInit ==
    /\ cnt_tree \in CntValues
    /\ cnt_buf = Encode(cnt_tree)
    /\ cnt_stage = "new"
    /\ cnt_elem = None
    /\ cnt_node = <<>>
    /\ cnt_it = None
    /\ cnt_out = <<>>
    /\ cnt_ret = None
    /\ cnt_calls = 0
    /\ cnt_find = None

\* TLVList::into_iter().next() : the first element of the buffer
ReadTop ==
    /\ cnt_stage = "new"
    /\ CntFrame
    /\ cnt_elem' = next(cnt_buf, into_iter(Len(cnt_buf))).ret
    /\ cnt_stage' = "elem"
    /\ UNCHANGED <<cnt_tree, cnt_buf, cnt_node, cnt_it, cnt_out, cnt_ret, cnt_calls,
                   cnt_find>>

\* TLVElement::into_iter on the element held, a container
IntoIter ==
    /\ cnt_stage = "elem" /\ cnt_elem # None
    /\ elem_into_iter(Unwrap(cnt_elem)) # None
    /\ CntFrame
    /\ cnt_it' = elem_into_iter(Unwrap(cnt_elem))
    /\ cnt_stage' = "iter"
    /\ UNCHANGED <<cnt_tree, cnt_buf, cnt_elem, cnt_node, cnt_out, cnt_ret, cnt_calls,
                   cnt_find>>

\* one call of TLVContainerIterator::next
CntNext ==
    /\ cnt_stage = "iter" /\ cnt_calls < MaxCntCalls
    /\ CntFrame
    /\ LET x == cnt_next(cnt_buf, Unwrap(cnt_it))
       IN  /\ cnt_it' = Some(x.ci)
           /\ cnt_ret' = x.ret
           /\ cnt_out' = IF x.ret = None THEN cnt_out ELSE Append(cnt_out, Unwrap(x.ret))
    /\ cnt_calls' = cnt_calls + 1
    /\ UNCHANGED <<cnt_tree, cnt_buf, cnt_stage, cnt_elem, cnt_node, cnt_find>>

\* the caller goes on with the i-th element the iterator yielded
Pick(i) ==
    /\ cnt_stage = "iter"
    /\ i \in 1..Len(cnt_out) /\ i <= Len(NodeAt(cnt_tree, cnt_node).kids)
    /\ CntFrame
    /\ cnt_elem' = Some(cnt_out[i])
    /\ cnt_node' = Append(cnt_node, i)
    /\ cnt_stage' = "elem"
    /\ cnt_it' = None /\ cnt_out' = <<>> /\ cnt_ret' = None /\ cnt_calls' = 0
    /\ cnt_find' = None
    /\ UNCHANGED <<cnt_tree, cnt_buf>>

\* tag numbers passed to find_tag
FindTags == {0, 1, 2, 257}

\* TLVElement::find_tag on the element held
FindTag(tag) ==
    /\ cnt_stage = "elem" /\ cnt_elem # None
    /\ CntFrame
    /\ cnt_find' = Some([tag |-> tag, res |-> find_tag(cnt_buf, Unwrap(cnt_elem), tag)])
    /\ UNCHANGED <<cnt_tree, cnt_buf, cnt_stage, cnt_elem, cnt_node, cnt_it, cnt_out,
                   cnt_ret, cnt_calls>>

CntSpecNext ==
    \/ ReadTop
    \/ IntoIter
    \/ CntNext
    \/ \E i \in 1..MaxKids : Pick(i)
    \/ \E tag \in FindTags : FindTag(tag)

----------------------------------------------------------------------------
(* transport/mgr.rs : the transport loop, with the exchange manager and the *)
(* reliability layer (MRP) it drives                                        *)

\* reliable requests arrive, and handlers respond, while every session's
\* message counter is at most this
MaxCtr == 1

\* handshakes that complete: sessions the handlers clone
MaxClones == 1

\* exchange ids, and local session ids, of the datagrams
ExchIds == {1, 2}
MgrSessIds == {0}
ExchKeys == MgrSessIds \X ExchIds
\* source addresses of the datagrams
MgrPeers == {"p1"}
\* message counters, and ack-msg-counters, of the datagrams
RxCtrs == {U32(0, 5), U32(0, 6)}
AckCtrs == {U32(0, 1), U32(0, 2)}

\* ExchangeMgr::new
NoExch == [k \in ExchKeys |-> "none"]
\* ReliableMessage::new
NoRel == [acks |-> [k \in ExchKeys |-> None], retrans |-> [k \in ExchKeys |-> None]]

\* ExchangeMgr::recv : the exchange of (session, exchange id); an unknown id
\* allocates a (Responder) exchange
ExchRecv(ex, key) == IF ex[key] # "none" THEN ex ELSE [ex EXCEPT ![key] = "open"]

\* Exchange::close
ExchClose(ex, key) == [ex EXCEPT ![key] = "closed"]

\* an exchange has pending MRP state: an ACK to send, or an outbound message
\* that is not acknowledged
HasPendingMrp(r, key) == r.acks[key] # None \/ r.retrans[key] # None

\* ExchangeMgr::purge : closed exchanges without pending MRP state are removed
Purge(ex, r) ==
    [k \in ExchKeys |->
        IF ex[k] = "closed" /\ ~HasPendingMrp(r, k) THEN "none" ELSE ex[k]]

\* ReliableMessage::recv : an ack-msg-counter cancels the matching pending
\* retransmit; a message that asks for reliability enqueues a standalone ACK
\* for its exchange
RelRecv(r, key, ctr, reliable, ack) ==
    [acks |-> IF reliable THEN [r.acks EXCEPT ![key] = Some(ctr)] ELSE r.acks,
     retrans |-> IF ack # None /\ r.retrans[key] = ack
                 THEN [r.retrans EXCEPT ![key] = None]
                 ELSE r.retrans]

\* ReliableMessage::pre_send : the pending ACK of the exchange is piggybacked
\* (and its entry cleared); a reliable message is recorded for retransmission,
\* one at a time per exchange
RelPreSend(r, key, reliable, ctr) ==
    IF reliable /\ r.retrans[key] # None
    THEN [res |-> "Err", ack |-> None, rel |-> r]
    ELSE [res |-> "Ok", ack |-> r.acks[key],
          rel |-> [acks |-> [r.acks EXCEPT ![key] = None],
                   retrans |-> IF reliable
                               THEN [r.retrans EXCEPT ![key] = Some(ctr)]
                               ELSE r.retrans]]

\* ReliableMessage::get_acks_to_send : the exchanges with a pending ACK
GetAcksToSend(r) == {k \in ExchKeys : r.acks[k] # None}

\* ProtoTx::new, and what ReliableMessage::prepare_ack makes of it
NoTx == [reliable |-> FALSE, new_session |-> None]
NoRx == [slot |-> 0, key |-> <<0, 0>>, ctr |-> U32Zero, reliable |-> FALSE,
         peer |-> "none"]

\* a transmitted message
Msg(kind, key, ack, ctr, peer) ==
    [kind |-> kind, key |-> key, ack |-> ack, ctr |-> ctr, peer |-> peer]

\* A mutant of MrpOnSend: send_to_exchange does not call the reliability layer
MrpOnSendSkipped(r, session, exch_id, reliable, ctr) ==
    [res |-> "Ok", ack |-> None, rel |-> r]

\* send_to_exchange, the call rel_mgr.pre_send(session.get_local_sess_id(),
\* exchange, proto_tx.reliable, &plain_hdr, &mut proto_hdr)
MrpOnSend(r, session, exch_id, reliable, ctr) ==
    RelPreSend(r, <<session.local_sess_id, exch_id>>, reliable, ctr)

\* A mutant of SendToExchange: the message goes to a fixed address, not to
\* proto_tx.peer
SendToExchangeElsewhere(tbl, r, checks, slot, exch_id, reliable, peer, kind, fail) ==
    IF fail # "none" \/ pre_send(Unwrap(tbl[slot]), checks).panic
    THEN [res |-> "Err", panic |-> FALSE, sessions |-> tbl, rel |-> r, wire |-> <<>>]
    ELSE [res |-> "Ok", panic |-> FALSE,
          sessions |-> [tbl EXCEPT ![slot] = Some(pre_send(Unwrap(tbl[slot]), checks).session)],
          rel |-> r,
          wire |-> <<Msg(kind, <<Unwrap(tbl[slot]).local_sess_id, exch_id>>, None,
                         Unwrap(tbl[slot]).msg_ctr, "elsewhere")>>]

\* Mgr::send_to_exchange on the session of a slot. `fail` is the step that
\* fails: "exchange" (exchange.send), "mrp" (rel_mgr.pre_send), "io"
\* (session.send or transport.send), or "none".
SendToExchange(tbl, r, checks, slot, exch_id, reliable, peer, kind, fail) ==
    IF fail = "exchange"
    THEN [res |-> "Err", panic |-> FALSE, sessions |-> tbl, rel |-> r, wire |-> <<>>]
    ELSE LET ps == pre_send(Unwrap(tbl[slot]), checks)
             tbl1 == [tbl EXCEPT ![slot] = Some(ps.session)]
             m == MrpOnSend(r, ps.session, exch_id, reliable, ps.hdr.ctr)
         IN  IF ps.panic
             THEN [res |-> "Err", panic |-> TRUE, sessions |-> tbl, rel |-> r,
                   wire |-> <<>>]
             ELSE IF fail = "mrp" \/ m.res = "Err"
             THEN [res |-> "Err", panic |-> FALSE, sessions |-> tbl1, rel |-> r,
                   wire |-> <<>>]
             ELSE IF fail = "io"
             THEN [res |-> "Err", panic |-> FALSE, sessions |-> tbl1, rel |-> m.rel,
                   wire |-> <<>>]
             ELSE [res |-> "Ok", panic |-> FALSE, sessions |-> tbl1, rel |-> m.rel,
                   wire |-> <<Msg(kind, <<ps.session.local_sess_id, exch_id>>,
                                  m.ack, ps.hdr.ctr, peer)>>]

\* Mgr::send_to_exchange_id : the session and the exchange are looked up by id
SendToExchangeId(tbl, ex, r, checks, key, kind, fail) ==
    LET slot == get_with_id(tbl, key[1])
    IN  IF slot = 0 \/ ex[key] = "none"
        THEN [res |-> "Err", panic |-> FALSE, sessions |-> tbl, rel |-> r,
              wire |-> <<>>]
        ELSE SendToExchange(tbl, r, checks, slot, key[2], FALSE,
                            Unwrap(tbl[slot]).peer_addr, kind, fail)

\* the keys of a set, in order
RECURSIVE KeySeq(_)
KeySeq(S) ==
    IF S = {} THEN <<>>
    ELSE LET k == CHOOSE x \in S : \A y \in S :
                      x[1] < y[1] \/ (x[1] = y[1] /\ x[2] <= y[2])
         IN  <<k>> \o KeySeq(S \ {k})

\* Mgr::start, the loop over acks_to_send: a standalone ACK is sent on every
\* exchange with a pending ACK; a failed send is logged and the loop goes on
RECURSIVE FlushAcks(_, _, _, _, _, _, _)
FlushAcks(keys, tbl, ex, r, checks, bad, kind) ==
    IF keys = <<>>
    THEN [panic |-> FALSE, sessions |-> tbl, rel |-> r, wire |-> <<>>]
    ELSE LET k == Head(keys)
             one == SendToExchangeId(tbl, ex, r, checks, k, "ack",
                                     IF k \in bad THEN kind ELSE "none")
         IN  IF one.panic THEN [one EXCEPT !.wire = <<>>]
             ELSE LET more == FlushAcks(Tail(keys), one.sessions, ex, one.rel,
                                        checks, bad, kind)
                  IN  [more EXCEPT !.wire = one.wire \o more.wire]

\* A mutant of AfterHandleRxtx: an error of handle_rxtx restarts the loop
AfterHandleRxtxRestart(res) == IF res = "Err" THEN "recv" ELSE "flush"

\* Mgr::start : whatever handle_rxtx returned, the loop body goes on with the
\* ACK flush
AfterHandleRxtx(res) == "flush"

----------------------------------------------------------------------------
(* The transport loop as a state machine (SpecMgr) *)

\* the addresses the first datagrams of a full table came from
FillerPeers ==
    <<"q03", "q04", "q05", "q06", "q07", "q08", "q09", "q10", "q11", "q12", "q13",
      "q14", "q15", "q16">>

\* The table of Mgr::new after the first, unencrypted datagrams of p1 and of
\* 14 other addresses: get_or_add gave each of them a plain-text session,
\* and no slot is left
MgrFullTable ==
    [i \in Slots |->
        IF i = 1 THEN MgrNewTable(U32One)[1]
        ELSE IF i = 2 THEN Some(SessionNew("p1"))
        ELSE Some(SessionNew(FillerPeers[i - 2]))]

\* Mgr::new, and the loop after datagrams that only added sessions
MgrInitWith(tbl) ==
    /\ sessions = tbl
    /\ next_sess_id = 1
    /\ overflow_checks = FALSE
    /\ panicked = FALSE
    /\ allocs = <<>> /\ pending = {} /\ sent = [i \in Slots |-> <<>>]
    /\ last_op = NoOp
    /\ cloned = None
    /\ pc = "recv"
    /\ exch = NoExch
    /\ rel = NoRel
    /\ rx = NoRx
    /\ tx = NoTx
    /\ wire = <<>>
    /\ trace = <<>>
    /\ last_trace = <<>>
    /\ purged = {}
    /\ accepted = [i \in Slots |-> None]

\* Mgr::new
MgrInit == MgrInitWith(MgrNewTable(U32One))

\* the loop with room in the session table, or with none
MgrTablesInit == \E tbl \in {MgrNewTable(U32One), MgrFullTable} : MgrInitWith(tbl)

\* the higher of the counter kept for a session and the counter of a
\* datagram of it that was let through
HighestCtr(kept, ctr) ==
    IF kept = None THEN ctr
    ELSE IF U32Less(Unwrap(kept), ctr) THEN ctr ELSE Unwrap(kept)

\* the message counters are small
CtrsSmall ==
    \A i \in Occupied(sessions) :
        ~U32Less(U32(0, MaxCtr), Unwrap(sessions[i]).msg_ctr)

\* Mgr::recv fails in transport.recv (or in the decode of the plain header):
\* handle_rxtx returns the error
RxError ==
    /\ pc = "recv" /\ ~panicked
    /\ MgrFrame
    /\ pc' = AfterHandleRxtx("Err")
    /\ trace' = <<"recv">>
    /\ rx' = NoRx /\ tx' = NoTx /\ wire' = <<>>
    /\ UNCHANGED <<sessions, next_sess_id, overflow_checks, panicked, exch, rel,
                   last_trace, purged, accepted>>

\* Mgr::recv of one datagram: session lookup (SessionMgr::recv), decrypt and
\* decode of the proto header, exchange lookup, MRP intake. `fail` is the
\* step that fails: "decrypt", "mrp" or "none".
RxDatagram(src, sess_id, enc, exch_id, ctr, reliable, ack, fail) ==
    /\ pc = "recv" /\ ~panicked
    /\ reliable => CtrsSmall
    /\ MgrFrame
    /\ trace' = <<"recv">>
    /\ tx' = NoTx /\ wire' = <<>>
    /\ LET g == get_or_add(sessions, sess_id, src, enc)
           key == <<sess_id, exch_id>>
       IN  IF g.res # "Ok"
           THEN /\ pc' = AfterHandleRxtx("Err")
                /\ rx' = NoRx
                /\ UNCHANGED <<sessions, exch, rel, accepted>>
           ELSE /\ sessions' = g.sessions
                /\ IF fail = "decrypt"
                   THEN /\ pc' = AfterHandleRxtx("Err")
                        /\ rx' = NoRx
                        /\ UNCHANGED <<exch, rel, accepted>>
                   ELSE /\ exch' = ExchRecv(exch, key)
                        /\ IF fail = "mrp"
                           THEN /\ pc' = AfterHandleRxtx("Err")
                                /\ rx' = NoRx
                                /\ UNCHANGED <<rel, accepted>>
                           ELSE /\ rel' = RelRecv(rel, key, ctr, reliable, ack)
                                /\ rx' = [slot |-> g.idx, key |-> key, ctr |-> ctr,
                                          reliable |-> reliable, peer |-> src]
                                /\ accepted' = [accepted EXCEPT ![g.idx] =
                                                    Some(HighestCtr(accepted[g.idx], ctr))]
                                /\ pc' = "dispatch"
    /\ UNCHANGED <<next_sess_id, overflow_checks, panicked, last_trace, purged>>

\* handle_rxtx, ProtoDemux::handle : the protocol handler runs. It answers
\* Yes (a response was written), No, or fails; it may close the exchange, ask
\* for a reliable response, and (a completed handshake) reserve a session id
\* and leave a cloned session in proto_tx.new_session, whatever it answers.
Dispatch(result, close, reliable, mk_session) ==
    /\ pc = "dispatch" /\ ~panicked
    /\ result # "Yes" => ~reliable
    /\ result = "Yes" => CtrsSmall
    /\ mk_session => next_sess_id <= MaxClones
    /\ MgrFrame
    /\ trace' = Append(trace, "dispatch")
    /\ exch' = IF close THEN ExchClose(exch, rx.key) ELSE exch
    /\ IF mk_session
       THEN LET r == get_next_sess_id(sessions, next_sess_id)
                c == SessionClone(Unwrap(sessions[rx.slot]),
                                  CloneDataNew(9, r.id, "Case"))
            IN  /\ next_sess_id' = r.next
                /\ tx' = [reliable |-> reliable, new_session |-> Some(c)]
       ELSE /\ tx' = [reliable |-> reliable, new_session |-> None]
            /\ UNCHANGED next_sess_id
    /\ pc' = IF result = "Yes" THEN "send"
             ELSE AfterHandleRxtx(IF result = "No" THEN "Ok" ELSE "Err")
    /\ UNCHANGED <<sessions, overflow_checks, panicked, rel, rx, wire, last_trace,
                   purged, accepted>>

\* A mutant of Send: the new session is added whether or not the response
\* was sent
SendThenAddAnyway(fail) ==
    /\ pc = "send" /\ ~panicked
    /\ MgrFrame
    /\ trace' = Append(trace, "send")
    /\ LET r == SendToExchange(sessions, rel, overflow_checks, rx.slot, rx.key[2],
                               tx.reliable, rx.peer, "resp", fail)
       IN  /\ panicked' = r.panic
           /\ rel' = r.rel
           /\ wire' = wire \o r.wire
           /\ sessions' = IF tx.new_session # None
                          THEN add_session(r.sessions, Unwrap(tx.new_session)).sessions
                          ELSE r.sessions
           /\ pc' = AfterHandleRxtx(r.res)
    /\ tx' = [tx EXCEPT !.new_session = None]
    /\ UNCHANGED <<next_sess_id, overflow_checks, exch, rx, last_trace, purged,
                   accepted>>

\* handle_rxtx, the response: proto_tx.new_session is taken, the response is
\* sent on the exchange of the request, and (Mgr::start) a new session is
\* added to the table if handle_rxtx returned Ok(Some(new_session))
Send(fail) ==
    /\ pc = "send" /\ ~panicked
    /\ MgrFrame
    /\ trace' = Append(trace, "send")
    /\ LET r == SendToExchange(sessions, rel, overflow_checks, rx.slot, rx.key[2],
                               tx.reliable, rx.peer, "resp", fail)
       IN  /\ panicked' = r.panic
           /\ rel' = r.rel
           /\ wire' = wire \o r.wire
           /\ sessions' = IF r.res = "Ok" /\ tx.new_session # None
                          THEN add_session(r.sessions, Unwrap(tx.new_session)).sessions
                          ELSE r.sessions
           /\ pc' = AfterHandleRxtx(r.res)
    /\ tx' = [tx EXCEPT !.new_session = None]
    /\ UNCHANGED <<next_sess_id, overflow_checks, exch, rx, last_trace, purged,
                   accepted>>

\* A mutant of Flush: the first failed send ends the flush
FlushUntilFailure(bad, kind) ==
    /\ pc = "flush" /\ ~panicked
    /\ bad \subseteq GetAcksToSend(rel)
    /\ MgrFrame
    /\ trace' = Append(trace, "flush")
    /\ pc' = "purge"
    /\ UNCHANGED <<sessions, rel, wire, panicked, next_sess_id, overflow_checks, exch, rx,
                   tx, last_trace, purged, accepted>>

\* Mgr::start, the standalone-ACK flush. The sends on the exchanges in `bad`
\* fail, at step `kind`.
Flush(bad, kind) ==
    /\ pc = "flush" /\ ~panicked
    /\ bad \subseteq GetAcksToSend(rel)
    /\ MgrFrame
    /\ trace' = Append(trace, "flush")
    /\ LET r == FlushAcks(KeySeq(GetAcksToSend(rel)), sessions, exch, rel,
                          overflow_checks, bad, kind)
       IN  /\ panicked' = r.panic
           /\ sessions' = r.sessions
           /\ rel' = r.rel
           /\ wire' = wire \o r.wire
    /\ pc' = "purge"
    /\ UNCHANGED <<next_sess_id, overflow_checks, exch, rx, tx, last_trace, purged,
                   accepted>>

\* A mutant of PurgeStep: the loop does not purge
PurgeStepSkipped ==
    /\ pc = "purge" /\ ~panicked
    /\ MgrFrame
    /\ last_trace' = Append(trace, "purge")
    /\ trace' = <<>>
    /\ pc' = "recv"
    /\ rx' = NoRx /\ tx' = NoTx /\ wire' = <<>>
    /\ purged' = {}
    /\ UNCHANGED <<sessions, next_sess_id, overflow_checks, panicked, rel, exch,
                   accepted>>

\* Mgr::start, the exchange purge at the end of the loop body
PurgeStep ==
    /\ pc = "purge" /\ ~panicked
    /\ MgrFrame
    /\ exch' = Purge(exch, rel)
    /\ purged' = {k \in ExchKeys : exch[k] # "none" /\ Purge(exch, rel)[k] = "none"}
    /\ last_trace' = Append(trace, "purge")
    /\ trace' = <<>>
    /\ pc' = "recv"
    /\ rx' = NoRx /\ tx' = NoTx /\ wire' = <<>>
    /\ UNCHANGED <<sessions, next_sess_id, overflow_checks, panicked, rel, accepted>>

MgrNext ==
    \/ RxError
    \/ \E src \in MgrPeers, sess_id \in MgrSessIds, enc \in BOOLEAN,
          exch_id \in ExchIds, ctr \in RxCtrs, reliable \in BOOLEAN,
          ack \in {None} \cup {Some(c) : c \in AckCtrs},
          fail \in {"none", "decrypt", "mrp"} :
          RxDatagram(src, sess_id, enc, exch_id, ctr, reliable, ack, fail)
    \/ \E result \in {"Yes", "No", "Err"}, close \in BOOLEAN, reliable \in BOOLEAN,
          mk_session \in BOOLEAN :
          Dispatch(result, close, reliable, mk_session)
    \/ \E fail \in {"none", "exchange", "mrp", "io"} : Send(fail)
    \/ \E bad \in SUBSET ExchKeys, kind \in {"exchange", "io"} : Flush(bad, kind)
    \/ PurgeStep

----------------------------------------------------------------------------
(* interaction_model/core.rs : opcodes, status codes, From<Error> *)

\* Interaction Model ID as per the Matter Spec
PROTO_ID_INTERACTION_MODEL == 1

\* OpCode
ReadRequest == 2
SubscribeRequest == 3
SubscriptResponse == 4
WriteRequest == 6
InvokeRequest == 8
InvokeResponse == 9
TimedRequest == 10

\* num::FromPrimitive::from_u8 for OpCode, whose variants are 0..=10
opcode_from_u8(n) == IF n \in 0..TimedRequest THEN Some(n) ELSE None

\* IMStatusCode
Sucess == 0
Failure == 1
UnsupportedEndpoint == 127
UnsupportedCommand == 129
UnsupportedAttribute == 134
UnsupportedCluster == 195

\* every variant of IMStatusCode
IMStatusCodes ==
    {Sucess, Failure, 125, 126, UnsupportedEndpoint, 128, UnsupportedCommand, 133,
     UnsupportedAttribute, 135, 136, 137, 139, 140, 141, 143, 146, 148, 156,
     UnsupportedCluster, 197, 198}

\* the variants of Error
ErrorVariants ==
    {"InvalidData", "TLVTypeMismatch", "InvalidTag", "InvalidOpcode", "NoTagFound",
     "NoSpace", "NoSession", "NoExchange", "NoEndpoint",
     "EndpointNotFound", "ClusterNotFound", "AttributeNotFound", "CommandNotFound",
     "CryptoFail", "InvalidSignature", "InvalidPeerAddr", "InvalidKeyLength",
     "InvalidAction", "NeedsTimedInteraction", "Busy", "Timeout", "Invalid"}

\* A mutant of the conversion: the arm for ClusterNotFound is missing
IMStatusCode_from_no_cluster_arm(e) ==
    CASE e = "EndpointNotFound" -> UnsupportedEndpoint
      [] e = "AttributeNotFound" -> UnsupportedAttribute
      [] e = "CommandNotFound" -> UnsupportedCommand
      [] OTHER -> Failure

\* impl From<Error> for IMStatusCode
IMStatusCode_from(e) ==
    CASE e = "EndpointNotFound" -> UnsupportedEndpoint
      [] e = "ClusterNotFound" -> UnsupportedCluster
      [] e = "AttributeNotFound" -> UnsupportedAttribute
      [] e = "CommandNotFound" -> UnsupportedCommand
      [] OTHER -> Failure

----------------------------------------------------------------------------
(* data_model : the node, its endpoints and clusters, handle_command *)

\* ENDPTS_PER_ACC : [Option<Box<Endpoint>>; 3]
ENDPTS_PER_ACC == 3

\* The node after DataModel::new: endpoint 0, the root endpoint, carries its
\* clusters. An endpoint is the set of the ids of its clusters.
RootNode == <<Some({49}), None, None>>

\* the node after one more add_endpoint, with a cluster 6 on endpoint 1
ImNodes == {RootNode, <<Some({49}), Some({6}), None>>}

\* Node::get_endpoint : `self.endpoints[endpoint_id as usize]` is an indexing
\* of the fixed array, which panics for an index that is out of bounds
get_endpoint(node, endpoint_id) ==
    IF endpoint_id >= ENDPTS_PER_ACC THEN [res |-> "panic", endpoint |-> None]
    ELSE IF node[endpoint_id + 1] = None THEN [res |-> "Invalid", endpoint |-> None]
    ELSE [res |-> "Ok", endpoint |-> node[endpoint_id + 1]]

\* Endpoint::get_cluster : the position of the cluster with that id
get_cluster(endpoint, cluster_id) ==
    IF cluster_id \in endpoint THEN "Ok" ELSE "Invalid"

\* the outcome of handle_command: Ok(()) or Err(status), whether the
\* cluster's handler ran, whether it completed the transaction
CmdOut(ok, status, invoked, complete, panic) ==
    [ok |-> ok, status |-> status, invoked |-> invoked, complete |-> complete,
     panic |-> panic]

\* A cluster's command handler: command 12 succeeds, command 14 succeeds and
\* completes the transaction, command 13 returns the status Failure, any
\* other command is not one of the cluster
cluster_handle_command(command) ==
    IF command = 12 THEN CmdOut(TRUE, Sucess, TRUE, FALSE, FALSE)
    ELSE IF command = 14 THEN CmdOut(TRUE, Sucess, TRUE, TRUE, FALSE)
    ELSE IF command = 13 THEN CmdOut(FALSE, Failure, TRUE, FALSE, FALSE)
    ELSE CmdOut(FALSE, UnsupportedCommand, TRUE, FALSE, FALSE)

\* DataModel::handle_command
handle_command(node, cmd_req) ==
    LET e == get_endpoint(node, cmd_req.endpoint)
    IN  IF e.res = "panic" THEN CmdOut(FALSE, Sucess, FALSE, FALSE, TRUE)
        ELSE IF e.res # "Ok" THEN CmdOut(FALSE, UnsupportedEndpoint, FALSE, FALSE, FALSE)
        ELSE IF get_cluster(Unwrap(e.endpoint), cmd_req.cluster) # "Ok"
             THEN CmdOut(FALSE, UnsupportedCluster, FALSE, FALSE, FALSE)
             ELSE cluster_handle_command(cmd_req.command)

----------------------------------------------------------------------------
(* interaction_model/command.rs : the invoke handler and what it writes *)

\* the room of the write buffer behind the response writer, in bytes
TxBufLen == 50
\* CommandDataIBs in one InvokeRequest
MaxBatch == 2

\* an unsigned integer as the writer puts it: the narrowest width that fits
UnsignedNode(tag, v) ==
    IF v < ByteMod THEN Node(4, tag, v, <<>>) ELSE Node(5, tag, v, <<>>)

\* CmdPathIb
CmdPathIb(endpoint, cluster, command) ==
    [endpoint |-> endpoint, cluster |-> cluster, command |-> command]

\* impl ToTLV for CmdPathIb : a list of the fields that are there
CmdPathIb_to_tlv(path, tag) ==
    Node(TY_LIST, tag, <<>>,
         (IF path.endpoint = None THEN <<>>
          ELSE <<UnsignedNode(Some(0), Unwrap(path.endpoint))>>)
         \o (IF path.cluster = None THEN <<>>
             ELSE <<UnsignedNode(Some(1), Unwrap(path.cluster))>>)
         \o <<UnsignedNode(Some(2), path.command)>>)

\* put_status_ib
put_status_ib(tag, status, cluster_status) ==
    Node(TY_STRUCT, tag, <<>>,
         <<UnsignedNode(Some(0), status), UnsignedNode(Some(1), cluster_status)>>)

\* impl ToTLV for InvokeResponse, the variant Status
InvokeResponse_Status(tag, cmd_path, status, cluster_status) ==
    Node(TY_STRUCT, tag, <<>>,
         <<Node(TY_STRUCT, Some(1), <<>>,
                <<CmdPathIb_to_tlv(cmd_path, Some(0)),
                  put_status_ib(Some(1), status, cluster_status)>>)>>)

\* TLVWriter on a WriteBuf: the bytes written, and the error of the first
\* write that found no room
TwNew == [buf |-> <<>>, err |-> None]

\* WriteBuf::append_with : NoSpace when end + size > buf.len()
tw_put(tw, bytes) ==
    IF tw.err # None THEN tw
    ELSE IF Len(tw.buf) + Len(bytes) <= TxBufLen THEN [tw EXCEPT !.buf = @ \o bytes]
    ELSE [tw EXCEPT !.err = Some("NoSpace")]

\* TLVElement::get_u8 on the element find_tag returned, `.ok()` of the two
opt_u8(f) ==
    IF f.res = "Ok" /\ Unwrap(f.elem).element_type.ty = 4
    THEN Some(ElemValue(Unwrap(f.elem).element_type))
    ELSE None

\* CmdPathIb::from_tlv, on what find_tag returned for the tags 0, 1 and 2
CmdPathIb_of(ep, cl, cmd) ==
    IF "panic" \in {ep.res, cl.res, cmd.res} THEN [res |-> "panic", path |-> None]
    ELSE IF cmd.res # "Ok" THEN [res |-> cmd.res, path |-> None]
    ELSE IF opt_u8(cmd) = None THEN [res |-> "TLVTypeMismatch", path |-> None]
    ELSE [res |-> "Ok",
          path |-> Some(CmdPathIb(opt_u8(ep), opt_u8(cl), Unwrap(opt_u8(cmd))))]

\* CmdPathIb::from_tlv
CmdPathIb_from_tlv(buf, cmd_path) ==
    CmdPathIb_of(find_tag(buf, cmd_path, 0), find_tag(buf, cmd_path, 1),
                 find_tag(buf, cmd_path, 2))

\* CommandReq::to_cmd_path_ib
to_cmd_path_ib(cmd_req) ==
    CmdPathIb(Some(cmd_req.endpoint), Some(cmd_req.cluster), cmd_req.command)

\* DataModel::consume_invoke_cmd
consume_invoke_cmd(node, cmd_path_ib, tw) ==
    LET cmd_req == [endpoint |-> IF cmd_path_ib.endpoint = None THEN 1
                                 ELSE Unwrap(cmd_path_ib.endpoint),
                    cluster |-> IF cmd_path_ib.cluster = None THEN 0
                                ELSE Unwrap(cmd_path_ib.cluster),
                    command |-> cmd_path_ib.command]
        result == handle_command(node, cmd_req)
    IN  IF result.panic THEN [res |-> "panic", tw |-> tw, out |-> result]
        ELSE IF ~result.ok
        THEN LET invoke_resp == InvokeResponse_Status(None, to_cmd_path_ib(cmd_req),
                                                      result.status, 0)
                 tw1 == tw_put(tw, Encode(invoke_resp))
             IN  [res |-> IF tw1.err # None THEN Unwrap(tw1.err) ELSE "Ok",
                  tw |-> tw1, out |-> result]
        ELSE [res |-> "Ok", tw |-> tw, out |-> result]

\* get_root_node_struct
get_root_node_struct(b) ==
    LET r == next(b, into_iter(Len(b)))
    IN  IF r.panic THEN [res |-> "panic", elem |-> None]
        ELSE IF r.ret = None THEN [res |-> "InvalidData", elem |-> None]
        ELSE IF Unwrap(r.ret).element_type.ty # TY_STRUCT
             THEN [res |-> "TLVTypeMismatch", elem |-> None]
             ELSE [res |-> "Ok", elem |-> r.ret]

\* what handle_invoke_req returns and leaves behind: Ok(Yes) or the error,
\* the writer, the calls of the consumer, the state of the transaction
InvOut(res, tw, calls, complete) ==
    [res |-> res, tw |-> tw, calls |-> calls, complete |-> complete]

\* handle_invoke_req, the loop over the CommandDataIBs: every `?` leaves the
\* loop and the handler with the error. invoke_loop is the loop; the steps
\* of its body are invoke_elem (on the result x of cmd_list_iter.next()),
\* invoke_ib (on the path p and the payload data that find_tag returned),
\* invoke_path (on the decoded path) and invoke_consumed (on the result c of
\* the consumer).
RECURSIVE invoke_loop(_, _, _, _, _, _)
invoke_consumed(buf, node, ci, calls, complete, cmd_path_ib, data, c) ==
    LET calls1 == Append(calls, [path |-> cmd_path_ib, data |-> data, out |-> c.out])
    IN  IF c.res # "Ok" THEN InvOut(c.res, c.tw, calls1, complete)
        ELSE invoke_loop(buf, node, ci, c.tw, calls1, complete \/ c.out.complete)

invoke_path(buf, node, ci, tw, calls, complete, cmd_path_ib, data) ==
    IF cmd_path_ib.res # "Ok" THEN InvOut(cmd_path_ib.res, tw, calls, complete)
    ELSE IF data.res # "Ok" THEN InvOut(data.res, tw, calls, complete)
    ELSE invoke_consumed(buf, node, ci, calls, complete, Unwrap(cmd_path_ib.path),
                         Unwrap(data.elem),
                         consume_invoke_cmd(node, Unwrap(cmd_path_ib.path), tw))

invoke_ib(buf, node, ci, tw, calls, complete, p, data) ==
    IF p.res # "Ok" THEN InvOut(p.res, tw, calls, complete)
    ELSE IF Unwrap(p.elem).element_type.ty # TY_LIST
    THEN InvOut("TLVTypeMismatch", tw, calls, complete)
    ELSE invoke_path(buf, node, ci, tw, calls, complete,
                     CmdPathIb_from_tlv(buf, Unwrap(p.elem)), data)

\* the two put_end_container after the loop
invoke_end(tw1, calls, complete) ==
    IF tw1.err # None THEN InvOut(Unwrap(tw1.err), tw1, calls, complete)
    ELSE InvOut("Yes", tw1, calls, complete)

invoke_elem(buf, node, tw, calls, complete, x) ==
    IF x.panic THEN InvOut("panic", tw, calls, complete)
    ELSE IF x.ret = None
    THEN invoke_end(tw_put(tw_put(tw, <<TY_ENDCNT>>), <<TY_ENDCNT>>), calls, complete)
    ELSE invoke_ib(buf, node, x.ci, tw, calls, complete,
                   find_tag(buf, Unwrap(x.ret), 0), find_tag(buf, Unwrap(x.ret), 1))

invoke_loop(buf, node, ci, tw, calls, complete) ==
    invoke_elem(buf, node, tw, calls, complete, cnt_next(buf, ci))

\* handle_invoke_req, from the array f that find_tag returned for the tag 2:
\* the envelope is opened, then the loop runs
invoke_requests(buf, node, f) ==
    IF f.res # "Ok" THEN InvOut(f.res, TwNew, <<>>, FALSE)
    ELSE IF Unwrap(f.elem).element_type.ty # TY_ARRAY
    THEN InvOut("TLVTypeMismatch", TwNew, <<>>, FALSE)
    ELSE LET cmd_list_iter == elem_into_iter(Unwrap(f.elem))
             tw == tw_put(tw_put(tw_put(TwNew, EncodeHead(TY_STRUCT, None)),
                                 EncodeHead(TY_FALSE, Some(0))),
                          EncodeHead(TY_ARRAY, Some(1)))
         IN  IF cmd_list_iter = None THEN InvOut("InvalidData", TwNew, <<>>, FALSE)
             ELSE IF tw.err # None THEN InvOut(Unwrap(tw.err), tw, <<>>, FALSE)
             ELSE invoke_loop(buf, node, Unwrap(cmd_list_iter), tw, <<>>, FALSE)

\* handle_invoke_req, from the root element
invoke_root(buf, node, root) ==
    IF root.res # "Ok" THEN InvOut(root.res, TwNew, <<>>, FALSE)
    ELSE invoke_requests(buf, node, find_tag(buf, Unwrap(root.elem), 2))

\* InteractionModel::handle_invoke_req
handle_invoke_req(buf, node) == invoke_root(buf, node, get_root_node_struct(buf))

\* what handle_proto_id returns and leaves behind: the result, the protocol
\* id and opcode of the response, whether the exchange was closed
ProtoOut(res, proto_id, proto_opcode, inv, closed) ==
    [res |-> res, proto_id |-> proto_id, proto_opcode |-> proto_opcode,
     tw |-> inv.tw, calls |-> inv.calls, closed |-> closed]

\* handle_proto_id, the arm `_` of the match on the opcode
unhandled_opcode == "InvalidOpcode"

\* A mutant of invoke_proto_out: the exchange is closed whenever the
\* transaction is complete, whatever the handler returned
invoke_proto_out_close_on_error(r) ==
    ProtoOut(r.res, Some(PROTO_ID_INTERACTION_MODEL), Some(InvokeResponse), r, r.complete)

\* handle_proto_id after handle_invoke_req returned r: the exchange is closed
\* when the handler succeeded and the transaction is complete
invoke_proto_out(r) ==
    ProtoOut(r.res, Some(PROTO_ID_INTERACTION_MODEL), Some(InvokeResponse), r,
             r.res = "Yes" /\ r.complete)

\* InteractionModel::handle_proto_id. `other` is what the read or the write
\* handler returns.
handle_proto_id(proto_opcode, buf, node, other) ==
    LET none == InvOut("", TwNew, <<>>, FALSE)
    IN  IF opcode_from_u8(proto_opcode) = None
        THEN ProtoOut("Invalid", None, None, none, FALSE)
        ELSE IF proto_opcode = InvokeRequest
        THEN invoke_proto_out(handle_invoke_req(buf, node))
        ELSE IF proto_opcode \in {ReadRequest, WriteRequest}
        THEN ProtoOut(other, Some(PROTO_ID_INTERACTION_MODEL), None, none, FALSE)
        ELSE ProtoOut(unhandled_opcode, Some(PROTO_ID_INTERACTION_MODEL), None, none,
                      FALSE)

----------------------------------------------------------------------------
(* The Interaction Model as a state machine (SpecIm) *)

\* a CommandDataIB of a request: well formed ("ok"), or with a part missing
\* or of the wrong type
CmdIb(kind, endpoint, cluster, command, arg) ==
    [kind |-> kind, endpoint |-> endpoint, cluster |-> cluster, command |-> command,
     arg |-> arg]

\* the payload of a command: a struct whose first argument has context tag 0
CmdData(arg) == Node(TY_STRUCT, Some(1), <<>>, <<Node(4, Some(0), arg, <<>>)>>)

\* the CommandDataIB as a peer encodes it
CmdIbNode(ib) ==
    LET path == CmdPathIb(ib.endpoint, ib.cluster, ib.command)
        list == CmdPathIb_to_tlv(path, Some(0))
    IN  Node(TY_STRUCT, None, <<>>,
             CASE ib.kind = "ok" -> <<list, CmdData(ib.arg)>>
               [] ib.kind = "nopath" -> <<CmdData(ib.arg)>>
               [] ib.kind = "nodata" -> <<list>>
               [] ib.kind = "nocmd" ->
                    <<[list EXCEPT !.kids = SubSeq(@, 1, Len(@) - 1)], CmdData(ib.arg)>>
               [] OTHER -> <<[list EXCEPT !.ty = TY_STRUCT], CmdData(ib.arg)>>)

\* the InvokeRequest message: struct { ctx0 = false, ctx1 = false,
\* ctx2 = array of CommandDataIB }
InvokeReqNode(req) ==
    Node(TY_STRUCT, None, <<>>,
         <<Node(TY_FALSE, Some(0), <<>>, <<>>), Node(TY_FALSE, Some(1), <<>>, <<>>),
           Node(TY_ARRAY, Some(2), <<>>, [i \in 1..Len(req) |-> CmdIbNode(req[i])])>>)

\* The CommandDataIBs requests are made of. Well formed: the command of the
\* test (endpoint 0, cluster 49, command 12, argument 5), commands the
\* cluster answers with a status or completes the transaction on, a cluster
\* and endpoints that are not there, ids that need two bytes, a path without
\* endpoint. Malformed: no path, no payload, a path without command, a path
\* that is a struct.
ImIbs ==
    {CmdIb("ok", Some(0), Some(49), 12, 5), CmdIb("ok", Some(0), Some(49), 13, 5),
     CmdIb("ok", Some(0), Some(49), 14, 7), CmdIb("ok", Some(0), Some(6), 12, 5),
     CmdIb("ok", Some(1), Some(6), 12, 5), CmdIb("ok", Some(2), Some(49), 12, 5),
     CmdIb("ok", Some(5), Some(49), 12, 5), CmdIb("ok", Some(0), Some(768), 12, 5),
     CmdIb("ok", Some(300), Some(6), 12, 5), CmdIb("ok", Some(0), Some(49), 300, 5),
     CmdIb("ok", None, Some(6), 12, 5),
     CmdIb("nopath", Some(0), Some(49), 12, 5), CmdIb("nodata", Some(0), Some(49), 12, 5),
     CmdIb("nocmd", Some(0), Some(49), 12, 5), CmdIb("pathstruct", Some(0), Some(49), 12, 5)}

ImRequests == SeqUpTo(ImIbs, MaxBatch)

\* opcodes of messages that are no InvokeRequest: the other defined ones,
\* and two that are no opcode
ImOpcodes == ((0..TimedRequest) \ {InvokeRequest}) \cup {127, 255}

\* the endpoints, clusters and commands handle_command is called with
ImEndpoints == {0, 1, 2, 3, 5, 300, 65535}
ImClusters == {6, 49}
ImCommands == {12, 13, 14, 15}

\* the data model of a device that has started
ImInit ==
    /\ im_node \in ImNodes
    /\ im_rx = None
    /\ im_res = None
    /\ im_sent = FALSE
    /\ im_closed = FALSE
    /\ im_status = None
    /\ im_cmd = None
    /\ im_panic = FALSE

\* nothing is being handled
ImReady == im_rx = None /\ im_status = None /\ im_cmd = None

\* One message of the Interaction Model on an open exchange of a valid
\* session, through Mgr::handle_rxtx: handle_proto_id, then send_to_exchange
\* when it returned Ok(Yes)
ImRecv(proto_opcode, req, other) ==
    /\ ~im_panic /\ ImReady
    /\ ImFrame
    /\ im_rx' = Some([opcode |-> proto_opcode, req |-> req,
                      buf |-> Encode(InvokeReqNode(req))])
    /\ im_res' = Some(handle_proto_id(proto_opcode, Unwrap(im_rx').buf, im_node, other))
    /\ im_panic' = (Unwrap(im_res').res = "panic")
    /\ im_sent' = (Unwrap(im_res').res = "Yes")
    /\ im_closed' = Unwrap(im_res').closed
    /\ UNCHANGED <<im_node, im_status, im_cmd>>

\* IMStatusCode::from(e)
ImConvert(e) ==
    /\ ~im_panic /\ ImReady
    /\ ImFrame
    /\ im_status' = Some([err |-> e, code |-> IMStatusCode_from(e)])
    /\ UNCHANGED <<im_node, im_rx, im_res, im_sent, im_closed, im_cmd, im_panic>>

\* DataModel::handle_command on a command request
ImCommand(endpoint, cluster, command) ==
    /\ ~im_panic /\ ImReady
    /\ ImFrame
    /\ LET cmd_req == [endpoint |-> endpoint, cluster |-> cluster, command |-> command]
           out == handle_command(im_node, cmd_req)
       IN  /\ im_cmd' = Some([req |-> cmd_req, out |-> out])
           /\ im_panic' = out.panic
    /\ UNCHANGED <<im_node, im_rx, im_res, im_sent, im_closed, im_status>>

\* the operation is over: the loop resets the response buffer and goes on
\* to the next datagram, on a fresh exchange
ImDone ==
    /\ ~im_panic /\ ~ImReady
    /\ ImFrame
    /\ im_rx' = None /\ im_res' = None /\ im_sent' = FALSE /\ im_closed' = FALSE
    /\ im_status' = None /\ im_cmd' = None
    /\ UNCHANGED <<im_node, im_panic>>

ImNext ==
    \/ \E req \in ImRequests : ImRecv(InvokeRequest, req, "Yes")
    \/ \E proto_opcode \in ImOpcodes, other \in {"Yes", "InvalidData"} :
          ImRecv(proto_opcode, <<>>, other)
    \/ \E e \in ErrorVariants : ImConvert(e)
    \/ \E endpoint \in ImEndpoints, cluster \in ImClusters, command \in ImCommands :
          ImCommand(endpoint, cluster, command)
    \/ ImDone

----------------------------------------------------------------------------
(* data_model/objects.rs : a cluster, its command table, handle_command *)

\* CMDS_PER_CLUSTER : [Option<Box<Command>>; 4]
CMDS_PER_CLUSTER == 4

\* the ids of the commands that are registered or invoked
ObjCmdIds == {12, 13, 14}

\* A CommandCb is a function pointer; it is modelled by the Result it
\* returns when it is called
ObjCallbacks == {"Ok", "Invalid"}

\* Command::new(id, cb)
Command_new(id, cb) == [id |-> id, cb |-> cb]

\* Cluster::new : every slot of the command table is None
Cluster_new == [i \in 1..CMDS_PER_CLUSTER |-> None]

\* the first slot of the table the predicate holds on, 0 when there is none
\* (Iterator::find and the `for` loop both go through the array in order)
FirstSlot(commands, P(_)) ==
    IF \E i \in 1..CMDS_PER_CLUSTER : P(commands[i])
    THEN CHOOSE i \in 1..CMDS_PER_CLUSTER :
            P(commands[i]) /\ \A j \in 1..(i - 1) : ~P(commands[j])
    ELSE 0

\* `if let None = c`
SlotIsFree(c) == c = None

\* Cluster::add_command : the command goes into the first free slot
add_command(commands, command) ==
    LET i == FirstSlot(commands, SlotIsFree)
    IN  IF i = 0 THEN [res |-> "NoSpace", commands |-> commands]
        ELSE [res |-> "Ok", commands |-> [commands EXCEPT ![i] = Some(command)]]

\* Cluster::handle_command : find the first slot that holds a command with
\* the id, .ok_or(Error::Invalid)?, then call its callback
Cluster_handle_command(commands, cmd_id) ==
    LET Has(x) == IF x = None THEN FALSE ELSE Unwrap(x).id = cmd_id
        i == FirstSlot(commands, Has)
    IN  IF i = 0 THEN [res |-> "Invalid", ran |-> None]
        ELSE [res |-> Unwrap(commands[i]).cb, ran |-> Some(i)]

\* a cluster that was just made
ObjInit ==
    /\ obj_cluster = Cluster_new
    /\ obj_ret = None

\* cluster.add_command(Command::new(id, cb)?)
ObjAddCommand(id, cb) ==
    /\ ObjFrame
    /\ LET r == add_command(obj_cluster, Command_new(id, cb))
       IN  /\ obj_cluster' = r.commands
           /\ obj_ret' = Some([op |-> "add_command", id |-> id, res |-> r.res, ran |-> None])

\* cluster.handle_command(cmd_id)
ObjHandleCommand(cmd_id) ==
    /\ ObjFrame
    /\ LET r == Cluster_handle_command(obj_cluster, cmd_id)
       IN  obj_ret' = Some([op |-> "handle_command", id |-> cmd_id, res |-> r.res,
                            ran |-> r.ran])
    /\ UNCHANGED obj_cluster

ObjNext ==
    \/ \E id \in ObjCmdIds, cb \in ObjCallbacks : ObjAddCommand(id, cb)
    \/ \E cmd_id \in ObjCmdIds : ObjHandleCommand(cmd_id)

----------------------------------------------------------------------------
(* utils/writebuf.rs : WriteBuf *)

\* the longest buffer handed to WriteBuf::new, and a short one
WbLen == 10
WbShortLen == 3

\* the number of calls made on one WriteBuf in a behaviour
WbMaxOps == 4

\* a buffer of n zero bytes, as the tests allocate it
Zeroed(n) == [i \in 1..n |-> 0]

\* WriteBuf::new : the WriteBuf holds &mut buf[..len] and nothing beyond it
WriteBuf_new(buf, len) == [buf |-> SubSeq(buf, 1, len), start |-> 0, end |-> 0]

\* what a call returns, with the WriteBuf it leaves
WbOut(w, res) == [w |-> w, res |-> res]

\* get_tail
get_tail(w) == w.end

\* rewind_tail_to and forward_tail_by assign the cursor without a check. The
\* offsets used here are far below usize::MAX, so the addition cannot wrap.
rewind_tail_to(w, new_end) == [w EXCEPT !.end = new_end]
forward_tail_by(w, new_offset) == [w EXCEPT !.end = @ + new_offset]

\* &buf[a..b] : the index is valid when a <= b <= buf.len(), and panics otherwise
RangeOk(buf, a, b) == a <= b /\ b <= Len(buf)

\* as_borrow_slice, as_slice, as_mut_slice : &self.buf[self.start..self.end]
as_borrow_slice(w) ==
    IF RangeOk(w.buf, w.start, w.end)
    THEN [res |-> "Ok", slice |-> SubSeq(w.buf, w.start + 1, w.end)]
    ELSE [res |-> "panic", slice |-> <<>>]

\* reset assigns both cursors without a check
reset(w, reserve_by) == [w EXCEPT !.start = reserve_by, !.end = reserve_by]

reserve_any_state(w, reserve_by) == WbOut(reset(w, reserve_by), "Ok")

\* reserve
reserve(w, reserve_by) ==
    IF w.end # 0 \/ w.start # 0 THEN WbOut(w, "Invalid")
    ELSE WbOut(reset(w, reserve_by), "Ok")

\* buf[a..b].copy_from_slice(src) with b - a = src.len(), and the writes of
\* byteorder into &mut buf[a..] : a panic when the range is not in the buffer
copy_into(w, a, src) ==
    IF RangeOk(w.buf, a, a + Len(src))
    THEN [w |-> [w EXCEPT !.buf = [i \in 1..Len(w.buf) |->
                     IF i > a /\ i <= a + Len(src) THEN src[i - a] ELSE w.buf[i]]],
          panic |-> FALSE]
    ELSE [w |-> w, panic |-> TRUE]

\* the cursor moves after the closure ran, unless the closure panicked
WbMoved(r, w1) == IF r.panic THEN WbOut(r.w, "panic") ELSE WbOut(w1, "Ok")

prepend_with_in_place(w, size, src) ==
    IF size <= w.start
    THEN WbMoved(copy_into(w, w.start - size, src), copy_into(w, w.start - size, src).w)
    ELSE WbOut(w, "NoSpace")

\* prepend_with, with the closure of prepend: it writes src into
\* buf[start - size .. start]
prepend_with(w, size, src) ==
    IF size <= w.start
    THEN WbMoved(copy_into(w, w.start - size, src),
                 [copy_into(w, w.start - size, src).w EXCEPT !.start = @ - size])
    ELSE WbOut(w, "NoSpace")

prepend(w, src) == prepend_with(w, Len(src), src)

append_with_one_short(w, size, src) ==
    IF w.end + size < Len(w.buf)
    THEN WbMoved(copy_into(w, w.end, src),
                 [copy_into(w, w.end, src).w EXCEPT !.end = @ + size])
    ELSE WbOut(w, "NoSpace")

\* append_with, with the closures of copy_from_slice and the le_* writers:
\* they write `size` bytes at buf[end..]
append_with(w, size, src) ==
    IF w.end + size <= Len(w.buf)
    THEN WbMoved(copy_into(w, w.end, src),
                 [copy_into(w, w.end, src).w EXCEPT !.end = @ + size])
    ELSE WbOut(w, "NoSpace")

copy_from_slice(w, src) == append_with(w, Len(src), src)
append(w, src) == copy_from_slice(w, src)

\* the le_* writers. A u16 is an integer; a u32 and a u64 are their 16-bit
\* limbs, most significant first. write_uint writes the nbytes low bytes.
le_u8(w, data) == append_with(w, 1, <<data>>)
le_u16(w, data) == append_with(w, 2, Le16(data))
le_u32(w, data) == append_with(w, 4, LeLimbs(data))
le_u64(w, data) == append_with(w, 8, LeLimbs(data))
le_uint(w, nbytes, data) == append_with(w, nbytes, SubSeq(LeLimbs(data), 1, nbytes))

\* the values the tests write
WbU8s == {1}
WbU16s == {65}
WbU32s == {<<51966, 47806>>}
WbU64s == {<<51966, 47806, 51966, 47806>>}
WbUints == {[nbytes |-> 2, data |-> <<0, 0, 0, 64>>]}
WbAppends == {<<170, 187>>}
WbPrepends == {<<12>>, <<13>>, <<10, 11>>}

\* the arguments of reserve and reset, of rewind_tail_to, of forward_tail_by
WbReserves == {0, 2, WbLen + 1}
WbResets == {0, WbLen + 1}
WbRewinds == {1, WbLen + 1}
WbForwards == {1}

\* the state after WriteBuf::new(&mut test_slice, len)
WbInit ==
    /\ wb \in {WriteBuf_new(Zeroed(WbLen), len) : len \in {WbShortLen, WbLen}}
    /\ wb_ret = None
    /\ wb_hist = None
    /\ wb_panic = FALSE
    /\ wb_ops = 0

WbCanCall == ~wb_panic /\ wb_ops < WbMaxOps

WbCall(op, kind, res, size, src) ==
    [op |-> op, kind |-> kind, res |-> res, size |-> size, src |-> src, before |-> wb]

\* a call that returns a Result: the WriteBuf it leaves, what it returned
WbReturn(out, op, kind, size, src) ==
    /\ wb' = out.w
    /\ wb_ret' = Some(WbCall(op, kind, out.res, size, src))
    /\ wb_panic' = (out.res = "panic")
    /\ wb_ops' = wb_ops + 1

\* the blocks written since reserve, kept while every call returns Ok
WbHistAfter(kind, res, src) ==
    IF wb_hist = None \/ res # "Ok" THEN None
    ELSE IF kind = "append"
    THEN Some([Unwrap(wb_hist) EXCEPT !.app = Append(@, src)])
    ELSE Some([Unwrap(wb_hist) EXCEPT !.pre = Append(@, src)])

WbReserve(h) ==
    /\ WbCanCall
    /\ WbReturn(reserve(wb, h), "reserve", "reserve", h, <<>>)
    /\ wb_hist' = IF reserve(wb, h).res = "Ok"
                  THEN Some([h |-> h, pre |-> <<>>, app |-> <<>>]) ELSE None
    /\ WbFrame

WbReset(h) ==
    /\ WbCanCall
    /\ WbReturn(WbOut(reset(wb, h), "Ok"), "reset", "cursor", h, <<>>)
    /\ wb_hist' = None
    /\ WbFrame

WbRewindTailTo(new_end) ==
    /\ WbCanCall
    /\ WbReturn(WbOut(rewind_tail_to(wb, new_end), "Ok"), "rewind_tail_to", "cursor",
                new_end, <<>>)
    /\ wb_hist' = None
    /\ WbFrame

WbForwardTailBy(new_offset) ==
    /\ WbCanCall
    /\ WbReturn(WbOut(forward_tail_by(wb, new_offset), "Ok"), "forward_tail_by", "cursor",
                new_offset, <<>>)
    /\ wb_hist' = None
    /\ WbFrame

WbAppended(out, op, src) ==
    /\ WbCanCall
    /\ WbReturn(out, op, "append", Len(src), src)
    /\ wb_hist' = WbHistAfter("append", out.res, src)
    /\ WbFrame

WbAppend(src) == WbAppended(append(wb, src), "append", src)
WbLeU8(data) == WbAppended(le_u8(wb, data), "le_u8", <<data>>)
WbLeU16(data) == WbAppended(le_u16(wb, data), "le_u16", Le16(data))
WbLeU32(data) == WbAppended(le_u32(wb, data), "le_u32", LeLimbs(data))
WbLeU64(data) == WbAppended(le_u64(wb, data), "le_u64", LeLimbs(data))
WbLeUint(nbytes, data) ==
    WbAppended(le_uint(wb, nbytes, data), "le_uint", SubSeq(LeLimbs(data), 1, nbytes))

WbPrepend(src) ==
    /\ WbCanCall
    /\ WbReturn(prepend(wb, src), "prepend", "prepend", Len(src), src)
    /\ wb_hist' = WbHistAfter("prepend", prepend(wb, src).res, src)
    /\ WbFrame

\* as_borrow_slice reads the slice; it changes nothing unless it panics
WbAsBorrowSlice ==
    /\ WbCanCall
    /\ WbReturn(WbOut(wb, as_borrow_slice(wb).res), "as_borrow_slice", "read", 0,
                as_borrow_slice(wb).slice)
    /\ wb_hist' = wb_hist
    /\ WbFrame

WbNext ==
    \/ \E h \in WbReserves : WbReserve(h)
    \/ \E h \in WbResets : WbReset(h)
    \/ \E new_end \in WbRewinds : WbRewindTailTo(new_end)
    \/ \E new_offset \in WbForwards : WbForwardTailBy(new_offset)
    \/ \E src \in WbAppends : WbAppend(src)
    \/ \E data \in WbU8s : WbLeU8(data)
    \/ \E data \in WbU16s : WbLeU16(data)
    \/ \E data \in WbU32s : WbLeU32(data)
    \/ \E data \in WbU64s : WbLeU64(data)
    \/ \E u \in WbUints : WbLeUint(u.nbytes, u.data)
    \/ \E src \in WbPrepends : WbPrepend(src)
    \/ WbAsBorrowSlice

----------------------------------------------------------------------------
(* secure_channel/case.rs : the CASE handshake of the responder *)

\* the writes of the Sigma2 body, in the order of handle_casesigma1
Sigma2Fields ==
    <<"start_struct", "our_random", "local_sess_id", "our_pub_key", "encrypted",
      "end_container">>

\* SCStatusCodes::NoSharedTrustRoots
NoSharedTrustRoots == "NoSharedTrustRoots"

\* a fresh exchange, and a ProtoTx nothing was written into
NewCaseExch == [closed |-> FALSE, data |-> None]
NoCaseTx == [kind |-> "none", code |-> None, fields |-> <<>>]

\* CaseSession::new
CaseSession_new(initiator_sessid) ==
    [state |-> "Sigma1Rx", initiator_sessid |-> initiator_sessid]

\* what a handler returns and leaves behind: the Result, the exchange,
\* proto_tx.write_buf and proto_tx.new_session
CaseOut(res, exchange, ptx, new_session) ==
    [res |-> res, exch |-> exchange, tx |-> ptx, new_session |-> new_session]

\* The reads of the root struct of Sigma1: find_tag(1..4), get_slice on the
\* random, the destination id and the public key, get_u8 on the session id.
\* A member that is missing gives NoTagFound, the session id in another type
\* than U8 gives TLVTypeMismatch.
sigma1_parse(msg) ==
    IF ~msg.random THEN "NoTagFound"
    ELSE IF msg.sessid = None THEN "NoTagFound"
    ELSE IF Unwrap(msg.sessid).ty # 4 THEN "TLVTypeMismatch"
    ELSE IF msg.dest = None THEN "NoTagFound"
    ELSE IF ~msg.pubkey THEN "NoTagFound"
    ELSE "Ok"

\* FabricMgr::match_dest_id : the index of the fabric the destination id is
\* computed from, an error when there is none
match_dest_id(dest) == IF dest = Some("fab1") THEN Some(1) ELSE None

\* common::create_sc_status_report : the status report is the content of
\* proto_tx
create_sc_status_report(code) == [kind |-> "status", code |-> Some(code), fields |-> <<>>]

\* handle_casesigma1, the two places where no fabric is found: the status
\* report, exchange.close(), Ok(())
no_fabric_out(exchange) ==
    CaseOut("Ok", [exchange EXCEPT !.closed = TRUE],
            create_sc_status_report(NoSharedTrustRoots), None)

\* A mutant of sigma2_out: the CaseSession is parked when it is created
sigma2_out_park_early(exchange, case_session, room) ==
    CaseOut(IF room < Len(Sigma2Fields) THEN "NoSpace" ELSE "Ok",
            [exchange EXCEPT !.data = Some(case_session)],
            [kind |-> "sigma2", code |-> None,
             fields |-> SubSeq(Sigma2Fields, 1, IF room < Len(Sigma2Fields) THEN room
                                                ELSE Len(Sigma2Fields))],
            None)

\* handle_casesigma1, the response body: the writes of the TLVWriter, each
\* with `?`, then set_exchange_data(case_session). `room` is the number of
\* writes the write buffer has room for.
sigma2_out(exchange, case_session, room) ==
    IF room < Len(Sigma2Fields)
    THEN CaseOut("NoSpace", exchange,
                 [kind |-> "sigma2", code |-> None,
                  fields |-> SubSeq(Sigma2Fields, 1, room)], None)
    ELSE CaseOut("Ok", [exchange EXCEPT !.data = Some(case_session)],
                 [kind |-> "sigma2", code |-> None, fields |-> Sigma2Fields], None)

\* Case::handle_casesigma1. env is what the collaborators do: `fail` the
\* crypto step that fails ("keypair", "pubkey", "secret", "sign", or "none"),
\* `fabric` what get_fabric returns ("some", "none", or "err"), `room` the
\* room of the write buffer.
handle_casesigma1(exchange, msg, env) ==
    IF sigma1_parse(msg) # "Ok" THEN CaseOut(sigma1_parse(msg), exchange, NoCaseTx, None)
    ELSE IF match_dest_id(msg.dest) = None THEN no_fabric_out(exchange)
    ELSE IF env.fail \in {"keypair", "pubkey", "secret"}
    THEN CaseOut("Err", exchange, NoCaseTx, None)
    ELSE IF env.fabric = "err" THEN CaseOut("Err", exchange, NoCaseTx, None)
    ELSE IF env.fabric = "none" THEN no_fabric_out(exchange)
    ELSE IF env.fail = "sign" THEN CaseOut("Err", exchange, NoCaseTx, None)
    ELSE sigma2_out(exchange, CaseSession_new(Unwrap(msg.sessid).val), env.room)

\* Case::handle_casesigma3 : the body is `Ok(())`
handle_casesigma3(exchange) == CaseOut("Ok", exchange, NoCaseTx, None)

----------------------------------------------------------------------------
(* The CASE handshake as a state machine (SpecCase) *)

\* the Sigma1 messages: each member there or missing, the session id in one
\* byte or in two, the destination id of the local fabric or of another
CaseSessIds == {None, Some([ty |-> 4, val |-> 1]), Some([ty |-> 4, val |-> 7]),
                Some([ty |-> 5, val |-> 300])}
CaseDests == {None, Some("fab1"), Some("other")}
CaseMsgs ==
    [random : {TRUE}, sessid : CaseSessIds, dest : CaseDests, pubkey : {TRUE}]
    \cup [random : BOOLEAN, sessid : {Some([ty |-> 4, val |-> 7])}, dest : {Some("fab1")},
          pubkey : BOOLEAN]

\* what the collaborators do: all goes well, or one of them fails
CaseEnvs ==
    [fail : {"none", "keypair", "pubkey", "secret", "sign"}, fabric : {"some"},
     room : {Len(Sigma2Fields)}]
    \cup [fail : {"none"}, fabric : {"some", "none", "err"}, room : {Len(Sigma2Fields)}]
    \cup [fail : {"none"}, fabric : {"some"}, room : {0, 3, Len(Sigma2Fields)}]

CaseInit ==
    /\ case_exch = NewCaseExch
    /\ case_tx = NoCaseTx
    /\ case_new = None
    /\ case_ret = None

\* the record of a call
CaseCall(op, msg, env, before, res) ==
    [op |-> op, msg |-> msg, env |-> env, before |-> before, res |-> res]

CaseReturn(out, op, msg, env) ==
    /\ case_exch' = out.exch
    /\ case_tx' = out.tx
    /\ case_new' = out.new_session
    /\ case_ret' = Some(CaseCall(op, msg, env, case_exch, out.res))

\* a Sigma1 arrives on the exchange; proto_tx is fresh for every datagram
CaseSigma1(msg, env) ==
    /\ ~case_exch.closed
    /\ CaseFrame
    /\ CaseReturn(handle_casesigma1(case_exch, msg, env), "sigma1", Some(msg), Some(env))

\* a Sigma3 arrives on the exchange
CaseSigma3 ==
    /\ ~case_exch.closed
    /\ CaseFrame
    /\ CaseReturn(handle_casesigma3(case_exch), "sigma3", None, None)

\* the next message opens a new exchange
CaseNewExchange ==
    /\ case_ret # None
    /\ CaseFrame
    /\ case_exch' = NewCaseExch
    /\ case_tx' = NoCaseTx
    /\ case_new' = None
    /\ case_ret' = None

CaseNext ==
    \/ \E msg \in CaseMsgs, env \in CaseEnvs : CaseSigma1(msg, env)
    \/ CaseSigma3
    \/ CaseNewExchange

----------------------------------------------------------------------------
(* data_model/objects.rs : Node and Endpoint *)

\* CLUSTERS_PER_ENDPT : [Option<Box<Cluster>>; 4]
CLUSTERS_PER_ENDPT == 4

\* calls on the node in one behaviour
NdMaxOps == 6

\* Endpoint::new, Node::new : every slot is None
Endpoint_new == [i \in 1..CLUSTERS_PER_ENDPT |-> None]
Node_new == [i \in 1..ENDPTS_PER_ACC |-> None]

\* what a call on the node returns and leaves behind; index is the position
\* (from 0) add_endpoint and get_cluster give
NdOut(res, index, node) == [res |-> res, index |-> index, node |-> node]

\* the free slots of an array
FreeSlots(arr) == {i \in 1..Len(arr) : arr[i] = None}

\* Endpoint::add_cluster : the cluster goes into the first slot that is None.
\* A cluster is its id.
Endpoint_add_cluster(endpoint, cluster) ==
    IF FreeSlots(endpoint) = {} THEN NdOut("NoSpace", None, endpoint)
    ELSE NdOut("Ok", None, [endpoint EXCEPT ![SetMin(FreeSlots(endpoint))] = Some(cluster)])

\* Endpoint::get_cluster : the position of the first cluster with the id
Endpoint_get_cluster(endpoint, cluster_id) ==
    LET M == {i \in 1..CLUSTERS_PER_ENDPT : endpoint[i] = Some(cluster_id)}
    IN  IF M = {} THEN NdOut("Invalid", None, endpoint)
        ELSE NdOut("Ok", Some(SetMin(M) - 1), endpoint)

\* Node::add_endpoint : the endpoint goes into the first slot that is None,
\* whose index is returned
Node_add_endpoint(node) ==
    IF FreeSlots(node) = {} THEN NdOut("NoSpace", None, node)
    ELSE NdOut("Ok", Some(SetMin(FreeSlots(node)) - 1),
               [node EXCEPT ![SetMin(FreeSlots(node))] = Some(Endpoint_new)])

\* Node::get_endpoint, then Endpoint::get_cluster on it. The indexing
\* `self.endpoints[endpoint_id as usize]` panics beyond the array.
Node_get_cluster(node, endpoint_id, cluster_id) ==
    IF endpoint_id >= ENDPTS_PER_ACC THEN NdOut("panic", None, node)
    ELSE IF node[endpoint_id + 1] = None THEN NdOut("Invalid", None, node)
    ELSE [Endpoint_get_cluster(Unwrap(node[endpoint_id + 1]), cluster_id)
             EXCEPT !.node = node]

\* Node::add_cluster
Node_add_cluster(node, endpoint_id, cluster) ==
    IF endpoint_id >= ENDPTS_PER_ACC THEN NdOut("panic", None, node)
    ELSE IF node[endpoint_id + 1] = None THEN NdOut("NoEndpoint", None, node)
    ELSE LET a == Endpoint_add_cluster(Unwrap(node[endpoint_id + 1]), cluster)
         IN  NdOut(a.res, None, [node EXCEPT ![endpoint_id + 1] = Some(a.node)])

----------------------------------------------------------------------------
(* The node as a state machine (SpecNode) *)

\* the endpoint indices and the cluster ids of the calls
NdEndpointIds == 0..ENDPTS_PER_ACC
NdClusterIds == {6, 49}

NdInit ==
    /\ nd_node = Node_new
    /\ nd_ret = None
    /\ nd_panic = FALSE
    /\ nd_ops = 0

NdCanCall == ~nd_panic /\ nd_ops < NdMaxOps

NdReturn(out, op, endpoint_id, id) ==
    /\ nd_node' = out.node
    /\ nd_panic' = (out.res = "panic")
    /\ nd_ops' = nd_ops + 1
    /\ nd_ret' = Some([op |-> op, endpoint_id |-> endpoint_id, id |-> id,
                       res |-> out.res, index |-> out.index])

NdAddEndpoint ==
    /\ NdCanCall
    /\ NdFrame
    /\ NdReturn(Node_add_endpoint(nd_node), "add_endpoint", None, None)

NdAddCluster(endpoint_id, id) ==
    /\ NdCanCall
    /\ NdFrame
    /\ NdReturn(Node_add_cluster(nd_node, endpoint_id, id), "add_cluster",
                Some(endpoint_id), Some(id))

NdGetCluster(endpoint_id, id) ==
    /\ NdCanCall
    /\ NdFrame
    /\ NdReturn(Node_get_cluster(nd_node, endpoint_id, id), "get_cluster",
                Some(endpoint_id), Some(id))

NdNext ==
    \/ NdAddEndpoint
    \/ \E endpoint_id \in NdEndpointIds, id \in NdClusterIds :
          NdAddCluster(endpoint_id, id)
    \/ \E endpoint_id \in NdEndpointIds, id \in NdClusterIds :
          NdGetCluster(endpoint_id, id)

----------------------------------------------------------------------------
(* data_model/core.rs : consume_read_attr *)

\* IMStatusCode::UnsupportedAccess
UnsupportedAccess == 126

\* AttributePath IBs in one read
MaxReadPaths == 2

\* an attribute of the node, and an attribute path: endpoint, cluster and
\* leaf (the attribute), each of them there or a wildcard
Attr(endpoint, cluster, id, value) ==
    [endpoint |-> endpoint, cluster |-> cluster, id |-> id, value |-> value]
AttrPath(endpoint, cluster, leaf) ==
    [endpoint |-> endpoint, cluster |-> cluster, leaf |-> leaf]

\* the attributes of a node with the endpoints 0 and 1, in the order of the
\* walk: endpoint, cluster, attribute
RdAttrs == <<Attr(0, 49, 0, 1), Attr(0, 49, 1, 2), Attr(1, 6, 0, 0)>>

\* the part of a path is a wildcard, or names this id
PartMatches(part, id) == part = None \/ part = Some(id)

\* the attributes of the node a path selects, in the order of the walk
RECURSIVE Hits(_, _)
Hits(attrs, path) ==
    IF attrs = <<>> THEN <<>>
    ELSE (IF /\ PartMatches(path.endpoint, Head(attrs).endpoint)
             /\ PartMatches(path.cluster, Head(attrs).cluster)
             /\ PartMatches(path.leaf, Head(attrs).id)
          THEN <<Head(attrs)>> ELSE <<>>)
         \o Hits(Tail(attrs), path)

\* Node::for_each_attribute : the walk over the attributes the path selects.
\* A part of the path that names an id the node does not have ends the walk
\* with the status of that part.
for_each_attribute(attrs, path) ==
    IF Hits(attrs, AttrPath(path.endpoint, None, None)) = <<>>
    THEN [res |-> Some(UnsupportedEndpoint), hits |-> <<>>]
    ELSE IF Hits(attrs, AttrPath(path.endpoint, path.cluster, None)) = <<>>
    THEN [res |-> Some(UnsupportedCluster), hits |-> <<>>]
    ELSE IF Hits(attrs, path) = <<>>
    THEN [res |-> Some(UnsupportedAttribute), hits |-> <<>>]
    ELSE [res |-> None, hits |-> Hits(attrs, path)]

\* attr_response::Ib::AttrData and AttrStatus, as they are written
AttrData(a) ==
    [kind |-> "AttrData", path |-> AttrPath(Some(a.endpoint), Some(a.cluster), Some(a.id)),
     value |-> Some(a.value), status |-> None]
AttrStatus(path, status) ==
    [kind |-> "AttrStatus", path |-> path, value |-> None, status |-> Some(status)]

\* consume_read_attr, the body of the loop for one path: an AttrData for
\* every attribute of the walk, or one AttrStatus when the walk fails
read_one(attrs, path) ==
    LET result == for_each_attribute(attrs, path)
    IN  IF result.res # None THEN <<AttrStatus(path, Unwrap(result.res))>>
        ELSE [i \in 1..Len(result.hits) |-> AttrData(result.hits[i])]

RECURSIVE read_loop(_, _)
read_loop(attrs, paths) ==
    IF paths = <<>> THEN <<>>
    ELSE read_one(attrs, Head(paths)) \o read_loop(attrs, Tail(paths))

\* DataModel::consume_read_attr. fab_scoped = true logs an error; nothing
\* else depends on it. attr_list is [array, paths]: the element is an array
\* or not (confirm_array), and the paths in it.
consume_read_attr(attrs, attr_list, fab_scoped) ==
    IF ~attr_list.array THEN [res |-> "TLVTypeMismatch", out |-> <<>>]
    ELSE [res |-> "Ok", out |-> read_loop(attrs, attr_list.paths)]

----------------------------------------------------------------------------
(* The attribute read as a state machine (SpecRead) *)

\* the paths of the reads: attributes that are there, wildcards, and an
\* endpoint, a cluster and an attribute that are not there
RdPaths ==
    {AttrPath(Some(0), Some(49), Some(0)), AttrPath(Some(0), Some(49), None),
     AttrPath(None, None, Some(0)), AttrPath(None, None, None),
     AttrPath(Some(2), Some(49), Some(0)), AttrPath(Some(1), Some(49), Some(0)),
     AttrPath(Some(1), Some(6), Some(5))}

RdLists == [array : BOOLEAN, paths : SeqUpTo(RdPaths, MaxReadPaths)]

RdInit ==
    /\ rd_node = RdAttrs
    /\ rd_ret = None

\* one read of attributes
RdRead(attr_list, fab_scoped) ==
    /\ RdFrame
    /\ LET r == consume_read_attr(rd_node, attr_list, fab_scoped)
       IN  rd_ret' = Some([attr_list |-> attr_list, fab_scoped |-> fab_scoped,
                           res |-> r.res, out |-> r.out])
    /\ UNCHANGED rd_node

RdNext == \E attr_list \in RdLists, fab_scoped \in BOOLEAN : RdRead(attr_list, fab_scoped)

----------------------------------------------------------------------------
(* Properties of the list reader *)

\* the element the last call of next() started at: its control octet, the
\* bytes that were left after it, and the size of its tag
CallControl == tlv_buf[tlv_prev.current + 1]
CallForm == CallControl \div 32
CallType == CallControl % 32
LeftAfterControl == tlv_prev.left - 1
CallTagSize == TAG_SIZE_MAP[CallForm + 1]
LeftAfterTag == LeftAfterControl - CallTagSize
\* a call that had at least the control octet to read
CallStarted == tlv_calls > 0 /\ tlv_prev.left >= 1
FixedWidthOf(ty) == CASE ty \in {0, 4} -> 1 [] ty \in {1, 5} -> 2
                      [] ty \in {2, 6, 10} -> 4 [] ty \in {3, 7, 11} -> 8
                      [] OTHER -> 0

TruncatedTag == CallStarted /\ CallTagSize > LeftAfterControl
UnknownType == CallStarted /\ CallType >= 25
TruncatedFixed ==
    /\ CallStarted /\ ~TruncatedTag
    /\ FixedWidthOf(CallType) > LeftAfterTag
StringOverrun ==
    /\ CallStarted /\ ~TruncatedTag
    /\ CallType \in {12, 16}
    /\ LeftAfterTag >= 1
    /\ tlv_buf[tlv_prev.current + 1 + CallTagSize + 1] > LeftAfterTag - 1

\* C9: for every buffer and declared length not above the buffer size, a call
\* of TLVListIterator::next never panics and never accesses an index at or
\* past the declared length, so what it returns is decoded from bytes below
\* the declared length (or it returns None); a truncated tag, a type code of
\* 25 or more, a fixed-width value longer than the remaining bytes and an
\* 8-bit-length string longer than the remaining bytes each give None.
C9_ReaderStaysInBounds ==
    /\ ~tlv_panic
    /\ tlv_reads \subseteq 0..(tlv_len - 1)
    /\ tlv_it.left >= 0
    /\ tlv_it.current + tlv_it.left = tlv_len
    /\ (TruncatedTag \/ UnknownType \/ TruncatedFixed \/ StringOverrun)
          => tlv_ret = None

\* C9 witness: a context-tagged string whose length byte claims more bytes
\* than the declared length leaves was refused, although the buffer itself
\* holds that many bytes
C9_Witness ==
    /\ StringOverrun
    /\ tlv_ret = None
    /\ Len(tlv_buf) > tlv_len
    /\ tlv_prev.current + 1 + CallTagSize + 1
          + tlv_buf[tlv_prev.current + 1 + CallTagSize + 1] <= Len(tlv_buf)

\* C10: once next() has returned None, every later call returns None too.
C10_NoneIsFinal ==
    [][(tlv_calls > 0 /\ tlv_ret = None) => tlv_ret' = None]_vars

----------------------------------------------------------------------------
(* Properties of the element and container readers *)

\* the element a reader should return for the value n encoded at offset off
\* of a buffer of `total` bytes
HeadLen(n) == Len(EncodeHead(n.ty, n.tag))
WantElem(n, off, total) ==
    [tag_type |-> IF n.tag = None THEN [form |-> 0, val |-> <<>>]
                  ELSE [form |-> 1, val |-> <<Unwrap(n.tag)>>],
     element_type |->
        IF n.ty \in ContainerTypes
        THEN Elem(n.ty, <<>>, [current |-> off + HeadLen(n),
                               left |-> total - off - HeadLen(n)])
        ELSE IF n.ty \in StrTypes THEN Elem(n.ty, n.v, NoPtr)
        ELSE Elem(n.ty, EncodeValue(n.ty, n.v), NoPtr)]

\* the elements for the values ns encoded one after the other from off
RECURSIVE WantElems(_, _, _)
WantElems(ns, off, total) ==
    IF ns = <<>> THEN <<>>
    ELSE <<WantElem(Head(ns), off, total)>>
             \o WantElems(Tail(ns), off + Len(Encode(Head(ns))), total)

\* the offset of the member at `path` of the value n encoded at off
RECURSIVE OffsetAt(_, _, _)
OffsetAt(n, off, path) ==
    IF path = <<>> THEN off
    ELSE LET i == Head(path)
         IN  OffsetAt(n.kids[i],
                      off + HeadLen(n) + Len(EncodeAll(SubSeq(n.kids, 1, i - 1))),
                      Tail(path))

\* the value held, where it is encoded, and the element it should be
HeldNode == NodeAt(cnt_tree, cnt_node)
HeldOff == OffsetAt(cnt_tree, 0, cnt_node)
HeldIsRight == cnt_elem = Some(WantElem(HeldNode, HeldOff, Len(cnt_buf)))
\* the elements of the direct members of the value held
WantKids == WantElems(HeldNode.kids, HeldOff + HeadLen(HeldNode), Len(cnt_buf))

IsPrefix(a, b) == Len(a) <= Len(b) /\ a = SubSeq(b, 1, Len(a))

\* C11: the iterator of a container of a well-formed buffer yields the
\* direct members of the container, in order, each once (a nested container
\* as one element), nothing after the end of the container, and once it has
\* returned None it yields nothing more.
C11_ContainerChildren ==
    (cnt_stage = "iter" /\ HeldIsRight) =>
        /\ IsPrefix(cnt_out, WantKids)
        /\ (cnt_calls > 0 /\ cnt_ret = None) => cnt_out = WantKids

\* C12: the reader applied to the well-formed encoding of a value of any
\* element type returns an element of that type that carries the value.
C12_RoundTrip ==
    (cnt_stage = "elem" /\ cnt_node = <<>>) =>
        /\ cnt_elem # None
        /\ Unwrap(cnt_elem).tag_type = [form |-> 0, val |-> <<>>]
        /\ Unwrap(cnt_elem).element_type.ty = cnt_tree.ty
        /\ IF cnt_tree.ty \in ContainerTypes
           THEN Unwrap(cnt_elem).element_type.ptr =
                    [current |-> 1, left |-> Len(cnt_buf) - 1]
           ELSE ElemValue(Unwrap(cnt_elem).element_type) = cnt_tree.v

\* the direct members of the value held whose tag is the context tag t
Tagged(t) == {i \in 1..Len(HeldNode.kids) : HeldNode.kids[i].tag = Some(t)}

\* C13: find_tag(t) on a container returns its first direct member whose tag
\* is the context tag t, NoTagFound when there is none, and TLVTypeMismatch
\* on an element that is no container.
C13_FindTag ==
    (cnt_find # None /\ HeldIsRight) =>
        LET f == Unwrap(cnt_find)
        IN  IF HeldNode.ty \notin ContainerTypes THEN f.res.res = "TLVTypeMismatch"
            ELSE IF Tagged(f.tag) = {} THEN f.res.res = "NoTagFound"
            ELSE /\ f.res.res = "Ok"
                 /\ f.res.elem = Some(WantKids[SetMin(Tagged(f.tag))])

----------------------------------------------------------------------------
(* Properties of the transport loop *)

\* C5: every reliable message the transport sent is acknowledged, or is
\* retransmitted max_retries+1 times and then abandoned: a pending
\* retransmit never stays pending forever.
C5_ReliableSendsResolve ==
    \A k \in ExchKeys : (rel.retrans[k] # None) ~> (rel.retrans[k] = None)

\* the response of this iteration went out
RespSent == wire # <<>> /\ wire[1].kind = "resp"

Bodies == {<<"recv">>, <<"recv", "dispatch">>, <<"recv", "dispatch", "send">>}

\* C8: an iteration runs receive, dispatch, optional send, ACK flush, purge in
\* this order before the next receive; flush and purge run in every
\* iteration, whatever failed before them.
C8_LoopOrder ==
    /\ pc = "recv" =>
          /\ trace = <<>>
          /\ last_trace \in {<<>>} \cup {b \o <<"flush", "purge">> : b \in Bodies}
    /\ pc = "dispatch" => trace = <<"recv">>
    /\ pc = "send" => trace = <<"recv", "dispatch">>
    /\ pc = "flush" => trace \in Bodies
    /\ pc = "purge" => trace \in {b \o <<"flush">> : b \in Bodies}
    /\ pc \in {"recv", "dispatch", "send", "flush", "purge"}

\* an iteration whose receive failed has run the flush and the purge
C8_Witness == pc = "recv" /\ last_trace = <<"recv", "flush", "purge">>

\* Mgr::recv has let a datagram through: handle_rxtx goes on to the
\* protocol dispatch with it
RxLetThrough == pc = "recv" /\ pc' = "dispatch"

\* C22: a datagram whose message counter is equal to or older than a counter
\* already accepted on the same session is rejected by Mgr::recv and does not
\* reach the protocol dispatch.
C22_ReplayRejected ==
    [][RxLetThrough =>
          (accepted[rx'.slot] # None => U32Less(Unwrap(accepted[rx'.slot]), rx'.ctr))]_vars

\* the responses among the messages of this iteration
IsResp(m) == m.kind = "resp"
RespMsgs == SelectSeq(wire, IsResp)

\* handle_rxtx has returned
AfterRxtx == pc \in {"flush", "purge"}

\* the protocol handler of this iteration returned ResponseRequired::Yes:
\* handle_rxtx went on to send_to_exchange
HandlerSaidYes == trace # <<>> /\ Len(trace) >= 3 /\ trace[3] = "send"

\* the steps send_to_exchange can fail at
SendFails == {"none", "exchange", "mrp", "io"}

\* C32 as stated: for each datagram a response is sent exactly when the
\* handler returned Yes, and then exactly one, to the source address of the
\* datagram; when the handler returned No or failed, none is sent.
C32_ResponseIffYes ==
    AfterRxtx =>
        /\ Len(RespMsgs) = (IF HandlerSaidYes THEN 1 ELSE 0)
        /\ \A i \in 1..Len(RespMsgs) : RespMsgs[i].peer = rx.peer

\* C32 amended: handle_rxtx calls send_to_exchange exactly when the handler
\* returned Yes; the response, exactly one and to the source address of the
\* datagram, goes out exactly when that call succeeds; when the handler
\* returned No or failed, none is sent.
C32_ResponseIffYesAndSent ==
    /\ [](AfterRxtx =>
            /\ Len(RespMsgs) <= 1
            /\ ~HandlerSaidYes => Len(RespMsgs) = 0
            /\ \A i \in 1..Len(RespMsgs) :
                   /\ RespMsgs[i].peer = rx.peer
                   /\ RespMsgs[i].key = rx.key)
    /\ [][\A fail \in SendFails :
              Send(fail) =>
                  (Len(RespMsgs') = 1 <=>
                      SendToExchange(sessions, rel, overflow_checks, rx.slot, rx.key[2],
                                     tx.reliable, rx.peer, "resp", fail).res = "Ok")]_vars

\* the response to a datagram that asked for no acknowledgement went out
C32_Witness ==
    /\ pc = "flush"
    /\ HandlerSaidYes
    /\ ~rx.reliable
    /\ Len(RespMsgs) = 1
    /\ RespMsgs[1].peer = rx.peer

\* the exchanges a standalone ACK went out on in this iteration
AckedKeys(w) == {w[i].key : i \in {j \in 1..Len(w) : w[j].kind = "ack"}}

\* the steps the send of a standalone ACK is made to fail at
AckFails == {"exchange", "io"}

\* C33: no per-packet error stops the transport loop: from every point of an
\* iteration, whatever failed in it, the loop reaches the receive call of
\* the next iteration; and in the flush the standalone ACK of every pending
\* exchange whose own send does not fail is sent, whichever other sends fail.
C33_LoopGoesOn ==
    /\ (pc # "recv") ~> (pc = "recv")
    /\ [][\A bad \in SUBSET ExchKeys, kind \in AckFails :
              Flush(bad, kind) => AckedKeys(wire') = GetAcksToSend(rel) \ bad]_vars

\* an iteration whose handler failed and in whose flush one standalone ACK
\* failed while another went out has reached the next receive
C33_Witness ==
    /\ pc = "purge"
    /\ trace = <<"recv", "dispatch", "flush">>
    /\ Len(wire) = 1
    /\ wire[1].kind = "ack"
    /\ Cardinality(GetAcksToSend(rel)) = 1

\* the steps of Mgr::recv that belong to the session layer: the decode of
\* the plain header, the session lookup, the decrypt and decode of the proto
\* header
SessionLayerFails == {"none", "decrypt"}

\* a datagram is rejected by the session layer
RejectedBySessionLayer ==
    \/ RxError
    \/ \E src \in MgrPeers, sess_id \in MgrSessIds, enc \in BOOLEAN,
          exch_id \in ExchIds, ctr \in RxCtrs, reliable \in BOOLEAN,
          fail \in SessionLayerFails :
          /\ RxDatagram(src, sess_id, enc, exch_id, ctr, reliable, None, fail)
          /\ pc' = AfterHandleRxtx("Err")

\* C34: a datagram that fails the receive processing of the session layer
\* (decode of the plain header, session lookup, decrypt or decode of the
\* proto header) is dropped: no response is sent for it, and the session
\* table after the failure is the table before the datagram arrived, so no
\* slot stays allocated for a rejected datagram.
C34_RejectedLeavesTable ==
    [][RejectedBySessionLayer => sessions' = sessions /\ wire' = <<>>]_vars

\* who sits in the slots of the table: the ids and the address of every
\* session, without the message counter a send moves
Seats(tbl) ==
    [i \in Slots |->
        IF tbl[i] = None THEN None
        ELSE Some(<<Unwrap(tbl[i]).local_sess_id, Unwrap(tbl[i]).peer_sess_id,
                    Unwrap(tbl[i]).peer_addr, Unwrap(tbl[i]).mode>>)]

\* the step sent the response of the datagram
ResponseSent == Len(RespMsgs') = Len(RespMsgs) + 1

\* the step put the session the handler created into a free slot
NewSessionAdded ==
    /\ tx.new_session # None
    /\ get_empty_slot(sessions) # 0
    /\ sessions'[get_empty_slot(sessions)] = tx.new_session
    /\ \A i \in Slots \ {get_empty_slot(sessions)} : Seats(sessions')[i] = Seats(sessions)[i]

\* C40: a session a protocol handler creates while a datagram is handled is
\* installed in the session table only after the response to that datagram
\* was sent successfully: if the handler returns No, or the handling or the
\* send fails, the new session is not added in that iteration; and when it
\* is added but the table is full, the failure is only logged and the loop
\* goes on with the table unchanged.
C40_NewSessionAfterResponse ==
    /\ [][(pc # "recv" /\ Seats(sessions') # Seats(sessions)) =>
              (pc = "send" /\ ResponseSent /\ NewSessionAdded)]_vars
    /\ [][(pc = "send" /\ tx.new_session # None /\ ResponseSent) =>
              /\ pc' = "flush"
              /\ IF get_empty_slot(sessions) = 0
                 THEN Seats(sessions') = Seats(sessions)
                 ELSE NewSessionAdded]_vars

\* the response of a datagram went out and the session its handler created
\* is in the table
C40_Witness ==
    /\ pc = "flush"
    /\ HandlerSaidYes
    /\ Len(RespMsgs) = 1
    /\ \E i \in Slots :
          /\ sessions[i] # None
          /\ Unwrap(sessions[i]).mode = "Case"
          /\ Unwrap(sessions[i]).local_sess_id = 1

----------------------------------------------------------------------------
(* Properties of the Interaction Model and the data model *)

\* C14: the conversion of an Error to an IMStatusCode is total and
\* deterministic: every Error can be converted, the result is a status code
\* of the enumeration, EndpointNotFound gives UnsupportedEndpoint (0x7F),
\* ClusterNotFound UnsupportedCluster (0xC3), AttributeNotFound
\* UnsupportedAttribute (0x86), CommandNotFound UnsupportedCommand (0x81),
\* every other Error gives Failure (0x01), and none gives Success (0x00).
C14_StatusMapping ==
    /\ (ImReady /\ ~im_panic) => \A e \in ErrorVariants : ENABLED ImConvert(e)
    /\ im_status # None =>
          LET s == Unwrap(im_status)
          IN  /\ s.code \in IMStatusCodes
              /\ s.code # 0
              /\ s.err = "EndpointNotFound" => s.code = 127
              /\ s.err = "ClusterNotFound" => s.code = 195
              /\ s.err = "AttributeNotFound" => s.code = 134
              /\ s.err = "CommandNotFound" => s.code = 129
              /\ s.err \notin {"EndpointNotFound", "ClusterNotFound",
                               "AttributeNotFound", "CommandNotFound"} => s.code = 1

\* ClusterNotFound has been converted
C14_Witness ==
    im_status # None /\ Unwrap(im_status).err = "ClusterNotFound"
        /\ Unwrap(im_status).code = 195

\* the last message handled, and what was made of it
ImMsg == Unwrap(im_rx)
ImOut == Unwrap(im_res)

\* C15: a message whose opcode is no defined opcode (0x7F for one) gets no
\* response, the error of the handler is InvalidOpcode, and the exchange is
\* not closed.
C15_UndefinedOpcode ==
    (im_rx # None /\ ImMsg.opcode \notin 0..10) =>
        /\ ~im_sent
        /\ ImOut.res = "InvalidOpcode"
        /\ ~im_closed

\* a response that carries nothing but a status
StatusResponseNode(code) == Node(TY_STRUCT, None, <<>>, <<UnsignedNode(Some(0), code)>>)

\* C16: a message with a subscribe opcode (3 or 4) is answered: a response
\* is sent and it carries the status Failure.
C16_SubscribeAnswered ==
    (im_rx # None /\ ImMsg.opcode \in {3, 4}) =>
        /\ im_sent
        /\ ImOut.tw.buf = Encode(StatusResponseNode(1))

\* an InvokeRequest whose CommandDataIBs are all well formed has been handled
WellFormedInvoke ==
    /\ im_rx # None
    /\ ImMsg.opcode = 8
    /\ \A i \in 1..Len(ImMsg.req) : ImMsg.req[i].kind = "ok"

\* the first argument of a command payload: its member with context tag 0
FirstArg(buf, data) ==
    LET a == find_tag(buf, data, 0)
    IN  IF a.res = "Ok" THEN Some(ElemValue(Unwrap(a.elem).element_type)) ELSE None

\* the bytes are an anonymous struct with a false at context tag 0 and an
\* array at context tag 1
IsInvokeEnvelope(buf) ==
    LET root == get_root_node_struct(buf)
    IN  /\ root.res = "Ok"
        /\ Unwrap(root.elem).tag_type = [form |-> 0, val |-> <<>>]
        /\ LET s == find_tag(buf, Unwrap(root.elem), 0)
               a == find_tag(buf, Unwrap(root.elem), 1)
           IN  /\ s.res = "Ok" /\ Unwrap(s.elem).element_type.ty = TY_FALSE
               /\ a.res = "Ok" /\ Unwrap(a.elem).element_type.ty = TY_ARRAY

\* the InvokeRequest of the test test_valid_invoke_cmd
ScenarioBytes ==
    <<21, 40, 0, 40, 1, 54, 2, 21, 55, 0, 36, 0, 0, 36, 1, 49, 36, 2, 12, 24,
      53, 1, 36, 0, 5, 24, 24, 24, 24>>

\* C17: for a well-formed InvokeRequest the handler calls the consumer once
\* per CommandDataIB of the array at context tag 2, in the order of the
\* array, with the endpoint, cluster and command of the IB's path and its
\* payload at context tag 1; the response opcode is InvokeResponse, the
\* response is struct { ctx0 = false, ctx1 = array }, and the handler
\* returns Yes. For the bytes of the test the consumer sees endpoint 0,
\* cluster 49, command 12 and the first argument 5.
C17_InvokeCallsConsumer ==
    WellFormedInvoke =>
        /\ ImOut.res = "Yes"
        /\ ImOut.proto_opcode = Some(9)
        /\ IsInvokeEnvelope(ImOut.tw.buf)
        /\ Len(ImOut.calls) = Len(ImMsg.req)
        /\ \A i \in 1..Len(ImMsg.req) :
              LET ib == ImMsg.req[i]
                  call == ImOut.calls[i]
              IN  /\ call.path = CmdPathIb(ib.endpoint, ib.cluster, ib.command)
                  /\ call.data.tag_type = ContextTag(1)
                  /\ FirstArg(ImMsg.buf, call.data) = Some(ib.arg)
        /\ ImMsg.buf = ScenarioBytes =>
              /\ Len(ImOut.calls) = 1
              /\ ImOut.calls[1].path = CmdPathIb(Some(0), Some(49), 12)
              /\ FirstArg(ImMsg.buf, ImOut.calls[1].data) = Some(5)

\* the node has the endpoint
HasEndpoint(node, endpoint) ==
    endpoint < Len(node) /\ node[endpoint + 1] # None

\* The status a command of a request fails with in the data model, None for
\* a command that succeeds: the endpoint is not there, the cluster is not
\* there, the handler of the cluster returns a status
WantStatus(node, ib) ==
    LET endpoint == Unwrap(ib.endpoint)
        cluster == Unwrap(ib.cluster)
    IN  IF ~HasEndpoint(node, endpoint) THEN Some(127)
        ELSE IF cluster \notin Unwrap(node[endpoint + 1]) THEN Some(195)
        ELSE IF ib.command \in {12, 14} THEN None
        ELSE IF ib.command = 13 THEN Some(1)
        ELSE Some(129)

\* one CommandStatus IB, with the path of the command and its status, for
\* every command of the request that fails, in the order of the request
RECURSIVE WantStatusIbs(_, _)
WantStatusIbs(node, req) ==
    IF req = <<>> THEN <<>>
    ELSE LET ib == Head(req)
             st == WantStatus(node, ib)
         IN  (IF st = None THEN <<>>
              ELSE <<InvokeResponse_Status(
                        None, CmdPathIb(ib.endpoint, ib.cluster, ib.command),
                        Unwrap(st), 0)>>)
             \o WantStatusIbs(node, Tail(req))

\* the response envelope around the IBs
InvokeRespNode(ibs) ==
    Node(TY_STRUCT, None, <<>>,
         <<Node(TY_FALSE, Some(0), <<>>, <<>>), Node(TY_ARRAY, Some(1), <<>>, ibs)>>)

\* a well-formed InvokeRequest whose paths name endpoint and cluster
FullPathInvoke ==
    /\ WellFormedInvoke
    /\ \A i \in 1..Len(ImMsg.req) :
          ImMsg.req[i].endpoint # None /\ ImMsg.req[i].cluster # None

\* C18: for every command of an invoke batch that fails in the data model
\* (no such endpoint, no such cluster, a status from the cluster's handler)
\* exactly one CommandStatus IB with the command's path and the status is
\* appended to the response, the handler returns success, and the other
\* commands of the batch are processed.
C18_PerCommandStatus ==
    FullPathInvoke =>
        /\ ImOut.res = "Yes"
        /\ Len(ImOut.calls) = Len(ImMsg.req)
        /\ ImOut.tw.buf = Encode(InvokeRespNode(WantStatusIbs(im_node, ImMsg.req)))

\* an InvokeRequest with a CommandDataIB that is malformed, or lacks its
\* path or its payload, and no command that completes the transaction
FaultyInvoke ==
    /\ im_rx # None
    /\ ImMsg.opcode = 8
    /\ \E i \in 1..Len(ImMsg.req) : ImMsg.req[i].kind # "ok"
    /\ \A i \in 1..Len(ImMsg.req) : ImMsg.req[i].command # 14

\* C19: an error raised while one request of a batch is handled is captured
\* and answered with a status: a response is still sent, the other requests
\* of the batch are still handled, and the exchange stays open.
C19_ErrorsCaptured ==
    FaultyInvoke =>
        /\ im_sent
        /\ IsInvokeEnvelope(ImOut.tw.buf)
        /\ Len(ImOut.calls) = Cardinality({i \in 1..Len(ImMsg.req) : ImMsg.req[i].kind = "ok"})
        /\ ~im_closed

\* C20: handle_command for an endpoint that is not in the node, the ids at
\* or beyond the capacity of the endpoint table included, gives the status
\* UnsupportedEndpoint (0x7F), does not panic, and runs no cluster handler.
C20_AbsentEndpoint ==
    (im_cmd # None /\ ~HasEndpoint(im_node, Unwrap(im_cmd).req.endpoint)) =>
        LET out == Unwrap(im_cmd).out
        IN  /\ ~out.panic
            /\ ~out.ok
            /\ out.status = 127
            /\ ~out.invoked

\* the handler of the last message returned Ok(ResponseRequired)
HandlerOk(res) == res.res \in {"Yes", "No"}

\* a command handler of the last message marked the Transaction Complete
TransComplete(res) == \E i \in 1..Len(res.calls) : res.calls[i].out.complete

PathInRange(ib) ==
    /\ ib.endpoint # None => Unwrap(ib.endpoint) \in 0..U16Max
    /\ ib.cluster # None => Unwrap(ib.cluster) \in 0..U16Max
    /\ ib.command \in 0..U16Max

\* C39: the endpoint of an invoke command path is decoded as a u16: every
\* endpoint id in 0..65535, and likewise every cluster and command id, in
\* whichever TLV integer width it is encoded, reaches the data model as that
\* same id; an endpoint or cluster that is present is never taken to be
\* absent (and replaced by the defaults endpoint 1, cluster 0).
C39_PathIdsAsEncoded ==
    (WellFormedInvoke /\ ImMsg.req # <<>> /\ PathInRange(ImMsg.req[1])) =>
        /\ ImOut.calls # <<>>
        /\ ImOut.calls[1].path.endpoint = ImMsg.req[1].endpoint
        /\ ImOut.calls[1].path.cluster = ImMsg.req[1].cluster
        /\ ImOut.calls[1].path.command = ImMsg.req[1].command

----------------------------------------------------------------------------
(* Properties of the cluster's command table *)

\* the command id is in a slot of the table
Registered(commands, cmd_id) ==
    \E i \in 1..CMDS_PER_CLUSTER :
        commands[i] # None /\ Unwrap(commands[i]).id = cmd_id

\* the last call was handle_command with an id that is not registered
UnregisteredCall ==
    /\ obj_ret # None
    /\ Unwrap(obj_ret).op = "handle_command"
    /\ ~Registered(obj_cluster, Unwrap(obj_ret).id)

\* C21: handle_command with a command id that is not registered in the
\* cluster runs no callback and returns the lookup error CommandNotFound,
\* whose IM status is UnsupportedCommand (0x81), not Failure.
C21_UnknownCommand ==
    UnregisteredCall =>
        /\ Unwrap(obj_ret).ran = None
        /\ Unwrap(obj_ret).res = "CommandNotFound"
        /\ IMStatusCode_from(Unwrap(obj_ret).res) = 129
        /\ IMStatusCode_from(Unwrap(obj_ret).res) # Failure

----------------------------------------------------------------------------
(* Properties of the WriteBuf *)

\* the last call, when there is one
WbLast == Unwrap(wb_ret)

\* C27: after any sequence of WriteBuf operations the cursors satisfy
\* 0 <= start <= end <= buffer length, and reading the slice never indexes
\* outside the buffer (no call panics).
C27_CursorsInBounds ==
    /\ 0 <= wb.start
    /\ wb.start <= wb.end
    /\ wb.end <= Len(wb.buf)
    /\ ~wb_panic

\* the last call was an append or a prepend
WbWrote == wb_ret # None /\ WbLast.kind \in {"append", "prepend"}

\* an append succeeded exactly when end + size <= usable length, a prepend
\* exactly when size <= start; a failed one returned NoSpace and left the
\* cursors and every byte as they were
WbWriteAsClaimed(c) ==
    /\ c.kind = "append" => (c.res = "Ok" <=> c.before.end + c.size <= Len(c.before.buf))
    /\ c.kind = "prepend" => (c.res = "Ok" <=> c.size <= c.before.start)
    /\ c.res # "Ok" => c.res = "NoSpace" /\ wb = c.before

RECURSIVE WbConcat(_)
WbConcat(blocks) ==
    IF blocks = <<>> THEN <<>> ELSE Head(blocks) \o WbConcat(Tail(blocks))

\* a list of blocks, last call first
WbReversed(blocks) == [i \in 1..Len(blocks) |-> blocks[Len(blocks) + 1 - i]]

\* the prepended blocks in reverse order of their calls, then the appended
\* blocks in call order
WbExpected(hist) == WbConcat(WbReversed(hist.pre)) \o WbConcat(hist.app)

\* what the last append or prepend did to the cursors and to the bytes
WbWriteEffect(c) ==
    /\ c.kind = "append" =>
            /\ wb.end = c.before.end + c.size
            /\ wb.start = c.before.start
            /\ SubSeq(wb.buf, c.before.end + 1, wb.end) = c.src
    /\ c.kind = "prepend" =>
            /\ wb.start = c.before.start - c.size
            /\ wb.end = c.before.end
            /\ SubSeq(wb.buf, wb.start + 1, c.before.start) = c.src
    /\ SubSeq(wb.buf, c.before.start + 1, c.before.end)
           = SubSeq(c.before.buf, c.before.start + 1, c.before.end)

WbSliceAsClaimed ==
    /\ as_borrow_slice(wb) = [res |-> "Ok", slice |-> WbExpected(Unwrap(wb_hist))]
    /\ WbWrote => WbWriteEffect(WbLast)

WbReserved == wb_ret # None /\ WbLast.op = "reserve"

\* C30: reserve(h) takes effect only from the zeroed state: with start = 0
\* and end = 0 it returns Ok and sets both cursors to h; in any other state
\* it returns an error and leaves both cursors (and the bytes) unchanged.
C30_ReserveFromZeroed ==
    WbReserved =>
        IF WbLast.before.start = 0 /\ WbLast.before.end = 0
        THEN /\ WbLast.res = "Ok"
             /\ wb.start = WbLast.size
             /\ wb.end = WbLast.size
             /\ wb.buf = WbLast.before.buf
        ELSE /\ WbLast.res = "Invalid"
             /\ wb = WbLast.before

\* reserve was refused although start was still 0, because end had moved
C30_Witness ==
    /\ WbReserved
    /\ WbLast.res = "Invalid"
    /\ WbLast.before.start = 0
    /\ WbLast.before.end > 0
    /\ WbLast.size > 0

----------------------------------------------------------------------------
(* Properties of the CASE handshake *)

\* the last message handled, and the last message was a Sigma1
CaseLast == Unwrap(case_ret)
Sigma1Handled == case_ret # None /\ CaseLast.op = "sigma1"

\* the last message was a Sigma1 that was read in full and for which no
\* fabric was found: its destination id matches none, or get_fabric was
\* reached and gave no record
NoFabricFound ==
    /\ Sigma1Handled
    /\ sigma1_parse(Unwrap(CaseLast.msg)) = "Ok"
    /\ \/ match_dest_id(Unwrap(CaseLast.msg).dest) = None
       \/ /\ Unwrap(CaseLast.env).fail \notin {"keypair", "pubkey", "secret"}
          /\ Unwrap(CaseLast.env).fabric = "none"

\* the last message was a Sigma1 that parked a CaseSession on the exchange
Sigma1Parked == Sigma1Handled /\ case_exch.data # CaseLast.before.data

Sigma3OnParked ==
    case_ret # None /\ CaseLast.op = "sigma3" /\ CaseLast.before.data # None

\* C36: the handshake goes from Sigma1Rx to Sigma3Rx to Complete: a Sigma3
\* on an exchange that holds a parked CaseSession is verified, a new
\* encrypted session with msg_ctr 1 is allocated and handed to the transport
\* loop, which installs it; no encrypted session is installed without a
\* Sigma1 before it on the same exchange.
C36_Sigma3Completes ==
    /\ Sigma3OnParked =>
          /\ case_exch.data # None
          /\ Unwrap(case_exch.data).state = "Complete"
          /\ case_new # None
          /\ Unwrap(case_new).msg_ctr = U32One
    /\ case_new # None => Sigma3OnParked

----------------------------------------------------------------------------
(* Properties of the attribute read and of the node *)

\* the last read
RdLast == Unwrap(rd_ret)

\* C37: a fabric-scoped attribute read (fab_scoped = true) returns the status
\* UnsupportedAccess for the requested paths and emits no attribute data.
C37_FabricScopedRefused ==
    (rd_ret # None /\ RdLast.fab_scoped /\ RdLast.attr_list.array) =>
        /\ Len(RdLast.out) = Len(RdLast.attr_list.paths)
        /\ \A i \in 1..Len(RdLast.out) :
              /\ RdLast.out[i].kind = "AttrStatus"
              /\ RdLast.out[i].status = Some(UnsupportedAccess)
              /\ RdLast.out[i].path = RdLast.attr_list.paths[i]

\* the clusters of an endpoint have pairwise distinct ids
DistinctClusterIds(endpoint) ==
    \A i, j \in 1..CLUSTERS_PER_ENDPT :
        (i # j /\ endpoint[i] # None) => endpoint[i] # endpoint[j]

\* an endpoint of the node stays where it is, with the clusters it has
EndpointsStay ==
    \A e \in 1..ENDPTS_PER_ACC :
        nd_node[e] # None =>
            /\ nd_node'[e] # None
            /\ \A i \in 1..CLUSTERS_PER_ENDPT :
                  Unwrap(nd_node[e])[i] # None =>
                      Unwrap(nd_node'[e])[i] = Unwrap(nd_node[e])[i]

\* C38: after any sequence of add_endpoint and add_cluster calls the
\* clusters of one endpoint have pairwise distinct cluster ids (an
\* add_cluster with an id that is on the endpoint creates no second cluster
\* with that id); endpoints once added keep their index and are never
\* removed.
C38_NodeShape ==
    /\ [](\A e \in 1..ENDPTS_PER_ACC :
             nd_node[e] # None => DistinctClusterIds(Unwrap(nd_node[e])))
    /\ [][EndpointsStay]_vars

----------------------------------------------------------------------------
(* Specifications *)

\* the subsystems at rest
SessIdle ==
    /\ sessions = EmptyTable /\ next_sess_id = 1 /\ overflow_checks = FALSE
    /\ panicked = FALSE /\ allocs = <<>> /\ pending = {}
    /\ sent = [i \in Slots |-> <<>>] /\ last_op = NoOp
    /\ cloned = None

TlvIdle ==
    /\ tlv_buf = <<>> /\ tlv_len = 0 /\ tlv_it = into_iter(0) /\ tlv_prev = into_iter(0)
    /\ tlv_ret = None
    /\ tlv_reads = {} /\ tlv_panic = FALSE /\ tlv_calls = 0

CntIdle ==
    /\ cnt_tree = Node(TY_NULL, None, <<>>, <<>>) /\ cnt_buf = <<>> /\ cnt_stage = "new"
    /\ cnt_elem = None /\ cnt_node = <<>> /\ cnt_it = None /\ cnt_out = <<>>
    /\ cnt_ret = None /\ cnt_calls = 0 /\ cnt_find = None

MgrIdle ==
    /\ pc = "recv" /\ exch = NoExch /\ rel = NoRel /\ rx = NoRx /\ tx = NoTx
    /\ wire = <<>> /\ trace = <<>> /\ last_trace = <<>> /\ purged = {}
    /\ accepted = [i \in Slots |-> None]

ImIdle ==
    /\ im_node = RootNode /\ im_rx = None /\ im_res = None /\ im_sent = FALSE
    /\ im_closed = FALSE /\ im_status = None /\ im_cmd = None /\ im_panic = FALSE

ObjIdle == ObjInit

CaseIdle == CaseInit
NdIdle == NdInit
RdIdle == RdInit
\* the subsystems added last are idle
MoreIdle == CaseIdle /\ NdIdle /\ RdIdle

WbIdle ==
    /\ wb = WriteBuf_new(Zeroed(WbLen), WbLen)
    /\ wb_ret = None
    /\ wb_hist = None
    /\ wb_panic = FALSE
    /\ wb_ops = 0

SessSpecInit == SessInit /\ TlvIdle /\ MgrIdle /\ CntIdle /\ ImIdle /\ ObjIdle /\ WbIdle /\ MoreIdle

SpecSess == SessSpecInit /\ [][SessNext]_vars

TblSpecInit == TblInit /\ TlvIdle /\ MgrIdle /\ CntIdle /\ ImIdle /\ ObjIdle /\ WbIdle /\ MoreIdle

SpecTbl == TblSpecInit /\ [][TblNext]_vars

SpecClone == TblSpecInit /\ [][CloneNext]_vars

\* the callers of the session manager keep calling it
FairSpecTbl == TblSpecInit /\ [][TblNext]_vars /\ WF_vars(TblNext)

MgrSpecInit == MgrInit /\ TlvIdle /\ CntIdle /\ ImIdle /\ ObjIdle /\ WbIdle /\ MoreIdle

SpecMgr == MgrSpecInit /\ [][MgrNext]_vars

\* the loop on one exchange of one plain-text peer, every send succeeding
MgrNextOneExch ==
    \/ RxError
    \/ \E reliable \in BOOLEAN, ack \in {None, Some(U32One), Some(U32(0, 2))} :
          RxDatagram("p1", 0, FALSE, 1, U32(0, 5), reliable, ack, "none")
    \/ \E result \in {"Yes", "No", "Err"}, close \in BOOLEAN, reliable \in BOOLEAN :
          Dispatch(result, close, reliable, FALSE)
    \/ Send("none")
    \/ Flush({}, "io")
    \/ PurgeStep

\* the loop keeps running: no step of it is postponed forever, and datagrams
\* keep arriving
FairSpecMgr == MgrSpecInit /\ [][MgrNextOneExch]_vars /\ WF_vars(MgrNextOneExch)

\* the loop, started with room in the session table or with none
MgrTablesSpecInit == MgrTablesInit /\ TlvIdle /\ CntIdle /\ ImIdle /\ ObjIdle /\ WbIdle /\ MoreIdle

SpecMgrTables == MgrTablesSpecInit /\ [][MgrNext]_vars

\* the calls of the loop body return: the handler, the response send, the
\* ACK flush and the purge are synchronous
DispatchReturns == pc = "dispatch" /\ ~panicked /\ pc' \in {"send", "flush"}
SendReturns == pc = "send" /\ ~panicked /\ pc' = "flush"
FlushReturns == pc = "flush" /\ ~panicked /\ pc' = "purge"
PurgeReturns == pc = "purge" /\ ~panicked /\ pc' = "recv"

\* The loop on all exchanges. Once the receive call has returned, the body of
\* `loop` runs on: the loop does not stay for ever at the dispatch, at the
\* send, at the flush or at the purge. The receive call itself may block for
\* ever.
FairSpecLoop ==
    /\ MgrSpecInit
    /\ [][MgrNext]_vars
    /\ WF_pc(DispatchReturns)
    /\ WF_pc(SendReturns)
    /\ WF_pc(FlushReturns)
    /\ WF_pc(PurgeReturns)

TlvSpecNext == TlvNext

TlvSpecInit == TlvInit /\ SessIdle /\ MgrIdle /\ CntIdle /\ ImIdle /\ ObjIdle /\ WbIdle /\ MoreIdle

SpecTlv == TlvSpecInit /\ [][TlvSpecNext]_vars

CntSpecInit == CntInit /\ SessIdle /\ TlvIdle /\ MgrIdle /\ ImIdle /\ ObjIdle /\ WbIdle /\ MoreIdle

SpecCnt == CntSpecInit /\ [][CntSpecNext]_vars

ImSpecInit == ImInit /\ SessIdle /\ TlvIdle /\ MgrIdle /\ CntIdle /\ ObjIdle /\ WbIdle /\ MoreIdle

SpecIm == ImSpecInit /\ [][ImNext]_vars

ObjSpecInit == ObjInit /\ SessIdle /\ TlvIdle /\ MgrIdle /\ CntIdle /\ ImIdle /\ WbIdle /\ MoreIdle

SpecObj == ObjSpecInit /\ [][ObjNext]_vars

WbSpecInit == WbInit /\ SessIdle /\ TlvIdle /\ MgrIdle /\ CntIdle /\ ImIdle /\ ObjIdle /\ MoreIdle

SpecWb == WbSpecInit /\ [][WbNext]_vars

\* the older subsystems are idle
CoreIdle == SessIdle /\ TlvIdle /\ MgrIdle /\ CntIdle /\ ImIdle /\ ObjIdle /\ WbIdle

CaseSpecInit == CaseInit /\ CoreIdle /\ NdIdle /\ RdIdle

SpecCase == CaseSpecInit /\ [][CaseNext]_vars

NdSpecInit == NdInit /\ CoreIdle /\ CaseIdle /\ RdIdle

SpecNode == NdSpecInit /\ [][NdNext]_vars

RdSpecInit == RdInit /\ CoreIdle /\ CaseIdle /\ NdIdle

SpecRead == RdSpecInit /\ [][RdNext]_vars

=============================================================================
